---- MODULE Spec2Model ----
(***************************************************************************)
(* Tweety, the Kapable platform canary: the HTTP entry points with their   *)
(* single-flight lock (src/src/index.ts), the check runners                *)
(* (src/src/canary/runner.ts, hector runner) and the per-check status      *)
(* aggregation (buildResult of every check file).                          *)
(***************************************************************************)
EXTENDS Integers, Sequences, FiniteSets, TLC

\* ---------------------------------------------------------------- bounds
\* Number of HTTP requests the server receives in one behaviour.
MaxReqs == 3
\* Largest reading of the wall clock, in ms.
MaxNow == 130000
\* Longest step sequence handed to an aggregation function.
MaxSteps == 3
\* Number of registered checks that may do anything but pass with one step.
MaxFaults == 2
\* Number of platform requests counted per check in progress.
MaxCalls == 1

\* Amounts by which the wall clock advances between two events, in ms.
Deltas == {60000, 60001}

\* ------------------------------------------------------------- constants
MAX_LOCK_DURATION_MS == 120000

Null == [null |-> TRUE]
NoError == [prefix |-> "", text |-> ""]

CheckStatus == {"pass", "fail", "warn", "skip"}

\* --------------------------------------------------------------- registry
registry ==
  << [name |-> "health",    fn |-> "healthCheck"],
     [name |-> "data-crud", fn |-> "dataCrudCheck"],
     [name |-> "toggles",   fn |-> "togglesCheck"],
     [name |-> "tokens",    fn |-> "tokensCheck"],
     [name |-> "secrets",   fn |-> "secretsCheck"],
     [name |-> "documents", fn |-> "documentsCheck"],
     [name |-> "webhooks",  fn |-> "webhooksCheck"],
     [name |-> "schedules", fn |-> "schedulesCheck"] >>

hectorRegistry ==
  << [name |-> "flow-crud",      fn |-> "flowCrudCheck"],
     [name |-> "flow-execution", fn |-> "flowExecutionCheck"],
     [name |-> "flow-gate",      fn |-> "flowGateCheck"],
     [name |-> "flow-scoring",   fn |-> "flowScoringCheck"] >>

\* The registry a runner iterates: "canary" is runner.ts, "hector" the
\* hector runner.
RegistryOf(runner) == IF runner = "hector" THEN hectorRegistry ELSE registry

\* --------------------------------------------------- status aggregation
\* The loop of the full buildResult: hasFail / hasSkip / hasPass flags.
RECURSIVE flagsLoop(_, _, _)
flagsLoop(steps, i, acc) ==
  IF i > Len(steps) THEN acc
  ELSE flagsLoop(steps, i + 1,
         IF steps[i] = "fail" THEN [acc EXCEPT !.hasFail = TRUE]
         ELSE IF steps[i] = "skip" THEN [acc EXCEPT !.hasSkip = TRUE]
         ELSE [acc EXCEPT !.hasPass = TRUE])

\* buildResult of app-lifecycle, documents, webhooks, the flow checks, ...
aggregateFlags(steps) ==
  LET f == flagsLoop(steps, 1, [hasFail |-> FALSE, hasSkip |-> FALSE, hasPass |-> FALSE])
  IN IF f.hasFail THEN "fail"
     ELSE IF ~f.hasPass /\ f.hasSkip THEN "skip"
     ELSE IF f.hasSkip THEN "warn"
     ELSE "pass"

\* The loop of the fail-only buildResult: status starts "pass", the first
\* failing step sets "fail" and breaks.
RECURSIVE failLoop(_, _)
failLoop(steps, i) ==
  IF i > Len(steps) THEN "pass"
  ELSE IF steps[i] = "fail" THEN "fail"
  ELSE failLoop(steps, i + 1)

\* A variant of aggregateFailOnly that never looks at the steps.
aggregateNoLook(steps) == "pass"

\* buildResult of storage, secrets, toggles, tokens, data-crud, schedules.
aggregateFailOnly(steps) == failLoop(steps, 1)

\* The loop of ai-image's buildResult: [status, allSkip], break on fail.
RECURSIVE allSkipLoop(_, _, _)
allSkipLoop(steps, i, acc) ==
  IF i > Len(steps) THEN acc
  ELSE IF steps[i] = "fail" THEN [status |-> "fail", allSkip |-> FALSE]
  ELSE allSkipLoop(steps, i + 1,
         IF steps[i] # "skip" THEN [acc EXCEPT !.allSkip = FALSE] ELSE acc)

\* buildResult of ai-image.
aggregateAllSkip(steps) ==
  LET a == allSkipLoop(steps, 1, [status |-> "pass", allSkip |-> TRUE])
  IN IF a.allSkip /\ Len(steps) > 0 THEN "skip" ELSE a.status

\* health computes its status inline: steps.some(fail) ? fail : pass.
aggregateHealth(steps) ==
  IF \E i \in 1..Len(steps) : steps[i] = "fail" THEN "fail" ELSE "pass"

\* The check functions of the repository that build their result with a
\* buildResult, and health, with the name their results carry and the
\* aggregation they implement.
CheckFns ==
  { [fn |-> "healthCheck",        name |-> "health",         agg |-> "health"],
    [fn |-> "dataCrudCheck",      name |-> "data-crud",      agg |-> "failOnly"],
    [fn |-> "togglesCheck",       name |-> "toggles",        agg |-> "failOnly"],
    [fn |-> "tokensCheck",        name |-> "tokens",         agg |-> "failOnly"],
    [fn |-> "secretsCheck",       name |-> "secrets",        agg |-> "failOnly"],
    [fn |-> "documentsCheck",     name |-> "documents",      agg |-> "flags"],
    [fn |-> "webhooksCheck",      name |-> "webhooks",       agg |-> "flags"],
    [fn |-> "schedulesCheck",     name |-> "schedules",      agg |-> "failOnly"],
    [fn |-> "aiChatCheck",        name |-> "ai-chat",        agg |-> "flags"],
    [fn |-> "aiImageCheck",       name |-> "ai-image",       agg |-> "allSkip"],
    [fn |-> "aiVoiceCheck",       name |-> "ai-voice",       agg |-> "flags"],
    [fn |-> "auditLogsCheck",     name |-> "audit-logs",     agg |-> "flags"],
    [fn |-> "usageCheck",         name |-> "usage",          agg |-> "flags"],
    [fn |-> "storageCheck",       name |-> "storage",        agg |-> "failOnly"],
    [fn |-> "functionsCheck",     name |-> "functions",      agg |-> "flags"],
    [fn |-> "deployHealthCheck",  name |-> "deploy-health",  agg |-> "flags"],
    [fn |-> "authFlowCheck",      name |-> "auth-flow",      agg |-> "flags"],
    [fn |-> "appLifecycleCheck",  name |-> "app-lifecycle",  agg |-> "flags"],
    [fn |-> "flowCrudCheck",      name |-> "flow-crud",      agg |-> "flags"],
    [fn |-> "flowExecutionCheck", name |-> "flow-execution", agg |-> "flags"],
    [fn |-> "flowGateCheck",      name |-> "flow-gate",      agg |-> "flags"],
    [fn |-> "flowScoringCheck",   name |-> "flow-scoring",   agg |-> "flags"],
    [fn |-> "functionCallCheck",  name |-> "function-call",  agg |-> "flags"] }

FnNames == { c.fn : c \in CheckFns }
FnInfo(fn) == CHOOSE c \in CheckFns : c.fn = fn

\* The status a check function's own aggregation gives a step sequence.
aggregateOf(fn, steps) ==
  LET k == FnInfo(fn).agg
  IN IF k = "flags" THEN aggregateFlags(steps)
     ELSE IF k = "failOnly" THEN aggregateFailOnly(steps)
     ELSE IF k = "allSkip" THEN aggregateAllSkip(steps)
     ELSE aggregateHealth(steps)

\* buildResult(steps, checkStart, errorMsg) of check function fn.
buildResult(fn, steps, errorMsg) ==
  [name |-> FnInfo(fn).name, status |-> aggregateOf(fn, steps),
   steps |-> steps, error |-> errorMsg]


\* ------------------------------------------------------------ the runner
\* What a check function can do once invoked: return buildResult(steps) or
\* throw.  A thrown value is an Error with a message, or any other value.
Returned(steps) ==
  [kind |-> "return", steps |-> steps, isError |-> FALSE, message |-> "", value |-> ""]
ThrownError(message) ==
  [kind |-> "throw", steps |-> <<>>, isError |-> TRUE, message |-> message, value |-> ""]
ThrownValue(value) ==
  [kind |-> "throw", steps |-> <<>>, isError |-> FALSE, message |-> "", value |-> value]

\* Step sequences a check is run with, and the values a check throws.
StepSamples == { <<"pass">>, <<"fail">>, <<"skip">>, <<"pass", "skip">> }
ThrowSamples == { ThrownError("boom"), ThrownValue("oops") }
Outcomes == { Returned(s) : s \in StepSamples } \cup ThrowSamples

\* A variant of unhandledMessage that passes the message on as it is.
unhandledMessageBare(err) ==
  [prefix |-> "", text |-> IF err.isError THEN err.message ELSE err.value]

\* `Unhandled: ${err instanceof Error ? err.message : String(err)}`
unhandledMessage(err) ==
  [prefix |-> "Unhandled: ", text |-> IF err.isError THEN err.message ELSE err.value]

\* The catch block of runAllChecks / runCheck: the synthetic result.
wrapUnhandled(entry, err) ==
  [name |-> entry.name, status |-> "fail", steps |-> <<>>,
   error |-> unhandledMessage(err)]

\* try { result = await entry.fn(http) } catch (err) { result = ... }
settle(entry, outcome) ==
  IF outcome.kind = "return"
  THEN buildResult(entry.fn, outcome.steps, NoError)
  ELSE wrapUnhandled(entry, outcome)

\* A variant of pushResult that leaves out the results of checks that threw.
pushResultDropsThrown(checks, result) ==
  IF result.steps = <<>> THEN checks ELSE Append(checks, result)

\* checks.push(result)
pushResult(checks, result) == Append(checks, result)

\* A variant of invokedAt that starts the next check along with this one.
invokedAtWithNext(i, n) == { j \in {i, i + 1} : j <= n }

\* The registry positions whose check function is invoked when the loop of
\* runAllChecks reaches position i: the loop awaits each check in turn.
invokedAt(i, n) == IF i <= n THEN {i} ELSE {}

\* The counting loop of runAllChecks (runner.ts): pass / fail / skip.
RECURSIVE countLoop(_, _, _)
countLoop(checks, i, acc) ==
  IF i > Len(checks) THEN acc
  ELSE countLoop(checks, i + 1,
         IF checks[i].status = "pass" THEN [acc EXCEPT !.pass = @ + 1]
         ELSE IF checks[i].status = "fail" THEN [acc EXCEPT !.fail = @ + 1]
         ELSE [acc EXCEPT !.skip = @ + 1])

\* The counting loop of runAllHectorChecks: pass / fail / warn / skip.
RECURSIVE countLoopHector(_, _, _)
countLoopHector(checks, i, acc) ==
  IF i > Len(checks) THEN acc
  ELSE countLoopHector(checks, i + 1,
         IF checks[i].status = "pass" THEN [acc EXCEPT !.pass = @ + 1]
         ELSE IF checks[i].status = "fail" THEN [acc EXCEPT !.fail = @ + 1]
         ELSE IF checks[i].status = "warn" THEN [acc EXCEPT !.warn = @ + 1]
         ELSE [acc EXCEPT !.skip = @ + 1])

\* summary: { pass, fail, skip, total } in runner.ts,
\* { pass, fail, warn, skip, total } in the hector runner.
summaryOf(runner, checks) ==
  IF runner = "hector"
  THEN countLoopHector(checks, 1, [pass |-> 0, fail |-> 0, warn |-> 0, skip |-> 0])
         @@ [total |-> Len(checks)]
  ELSE countLoop(checks, 1, [pass |-> 0, fail |-> 0, skip |-> 0]) @@ [total |-> Len(checks)]

\* The report runAllChecks returns, built at time t.
buildReport(runner, checks, reportStart, t) ==
  [timestamp |-> t, totalDurationMs |-> t - reportStart,
   summary |-> summaryOf(runner, checks), checks |-> checks]

\* runCheck's lookup loop: the first registry position named `name`, 0 if
\* there is none.
RECURSIVE findLoop(_, _, _)
findLoop(reg, name, i) ==
  IF i > Len(reg) THEN 0
  ELSE IF reg[i].name = name THEN i
  ELSE findLoop(reg, name, i + 1)

\* A variant of findTarget that falls back on the first registered check.
findTargetOrFirst(runner, name) ==
  IF findLoop(RegistryOf(runner), name, 1) = 0
  THEN 1
  ELSE findLoop(RegistryOf(runner), name, 1)

findTarget(runner, name) == findLoop(RegistryOf(runner), name, 1)

\* getCheckNames / getHectorCheckNames: push every entry's name in order.
RECURSIVE namesLoop(_, _, _)
namesLoop(reg, i, names) ==
  IF i > Len(reg) THEN names ELSE namesLoop(reg, i + 1, Append(names, reg[i].name))

getCheckNames(runner) == namesLoop(RegistryOf(runner), 1, <<>>)

\* ------------------------------------------------------------- the lock
\* Variants of acquireLock that the lock properties below must tell apart
\* from it: one that ignores the flag, one that recovers at the threshold
\* itself, one that never recovers.
acquireLockIgnoresFlag(running, startedAt, t) ==
  [ok |-> TRUE, isRunning |-> TRUE, runningStartedAt |-> t]

acquireLockAtThreshold(running, startedAt, t) ==
  IF running /\ ~(t - startedAt >= MAX_LOCK_DURATION_MS)
  THEN [ok |-> FALSE, isRunning |-> running, runningStartedAt |-> startedAt]
  ELSE [ok |-> TRUE, isRunning |-> TRUE, runningStartedAt |-> t]

acquireLockNeverStale(running, startedAt, t) ==
  IF running
  THEN [ok |-> FALSE, isRunning |-> running, runningStartedAt |-> startedAt]
  ELSE [ok |-> TRUE, isRunning |-> TRUE, runningStartedAt |-> t]

\* acquireLock(): the outcome and the lock fields it leaves.
acquireLock(running, startedAt, t) ==
  IF running /\ ~(t - startedAt > MAX_LOCK_DURATION_MS)
  THEN [ok |-> FALSE, isRunning |-> running, runningStartedAt |-> startedAt]
  ELSE [ok |-> TRUE, isRunning |-> TRUE, runningStartedAt |-> t]

\* A variant of releaseLock that forgets the lock on the 404 path.
releaseLockSkipsNotFound(exit) == exit = "notfound"

\* finally { isRunning = false }: the flag after a handler that acquired
\* the lock leaves through exit path `exit`.
releaseLock(exit) == FALSE


\* ------------------------------------------------------------------ state
VARIABLES
  lastReport,        \* index.ts: the last report, Null before the first
  isRunning,         \* index.ts: the lock flag
  runningStartedAt,  \* index.ts: Date.now() of the last acquire
  now,               \* the wall clock, Date.now()
  pc,                \* per request or call: "new", "run", "done"
  req,               \* per request or call: what was asked for
  run,               \* per request or call: the run it is executing
  inFlight,          \* per run: registry positions invoked and not resumed
  calls,             \* per run: platform requests issued by each check in flight
  settled,           \* per run: how the awaited check settled, Pending before
  resp,              \* per request or call: the response or return value
  faulty,            \* the check functions the platform lets misbehave
  steps,             \* the step sequence handed to buildResult
  built,             \* the result buildResult returned for it
  chk,               \* a check function in progress: position, steps, result
  http,              \* a request of HttpClient in progress
  poll,              \* a poll loop in progress
  probe,             \* a check function followed request by request
  adapter            \* a call of stepFromResponse: its arguments, its result

vars == << lastReport, isRunning, runningStartedAt, now, pc, req, run, inFlight,
           calls, settled, resp, faulty, steps, built, chk, http, poll, probe,
           adapter >>

Reqs == 1..MaxReqs

NoRun == [kind |-> "none", via |-> "", runner |-> "canary", idx |-> 0,
          checks |-> <<>>, start |-> 0]
Pending == [kind |-> "pending", steps |-> <<>>, isError |-> FALSE,
            message |-> "", value |-> ""]
NoCalls == [i \in {} |-> 0]
NoReq == [path |-> "", name |-> ""]
NoResp == [status |-> 0, body |-> Null]

\* The names asked for on /canary/:name.
OneNames == {"health", "no-such-check"}

\* The paths requested.
Paths ==
  { [path |-> p, name |-> ""] : p \in {"/", "/health", "/canary", "/favicon.ico"} }
  \cup { [path |-> "/canary/:name", name |-> n] : n \in OneNames }

PassOutcome == Returned(<<"pass">>)

\* What the platform lets check function fn do in this behaviour.
possible(fn) == IF fn \in faulty THEN Outcomes ELSE {PassOutcome}

RegisteredFns(runner) ==
  { RegistryOf(runner)[i].fn : i \in 1..Len(RegistryOf(runner)) }

\* Requests are numbered in the order the server receives them.
Arrives(r) == pc[r] = "new" /\ (IF r = 1 THEN TRUE ELSE pc[r - 1] # "new")

\* Nothing has been requested or called yet.
Solo == \A q \in Reqs : pc[q] = "new"

\* No run is in progress and the runner has not been called directly.
Quiet == \A q \in Reqs : pc[q] # "run" /\ run[q].via # "call"

BusyBody == [error |-> "Canary is already running. Please wait for it to finish."]

\* What a direct call of a runner asks for.
CallAllPath(runner) ==
  IF runner = "hector" THEN "runAllHectorChecks()" ELSE "runAllChecks()"
CallOnePath(runner) ==
  IF runner = "hector" THEN "runHectorCheck(name)" ELSE "runCheck(name)"

\* The run a caller starts: runAllChecks / runCheck up to the first await.
startAll(via, runner, t) ==
  [kind |-> "all", via |-> via, runner |-> runner, idx |-> 1,
   checks |-> <<>>, start |-> t]
startOne(via, runner, target, t) ==
  [kind |-> "one", via |-> via, runner |-> runner, idx |-> target,
   checks |-> <<>>, start |-> t]

\* ---------------------------------------------------------------- actions
\* A variant of FetchPlain that releases the lock as the run handlers do.
FetchPlainReleases(r, p) ==
  /\ Arrives(r)
  /\ p.path \in {"/", "/health", "/favicon.ico"}
  /\ req' = [req EXCEPT ![r] = p]
  /\ LET answer ==
           IF p.path = "/"
           THEN [status |-> 200,
                 body |-> [html |-> lastReport, checkNames |-> getCheckNames("canary")]]
           ELSE IF p.path = "/health"
           THEN [status |-> 200, body |-> [status |-> "ok", app |-> "tweety"]]
           ELSE [status |-> 404, body |-> [error |-> "Not found"]]
     IN resp' = [resp EXCEPT ![r] = answer]
  /\ pc' = [pc EXCEPT ![r] = "done"]
  /\ isRunning' = FALSE
  /\ UNCHANGED << lastReport, runningStartedAt, now, run, inFlight,
                  calls, settled, faulty, steps, built, chk, http, poll, probe, adapter >>

\* fetch(req) for "/", "/health" and any unmatched path: no lock, no run.
FetchPlain(r, p) ==
  /\ Arrives(r)
  /\ p.path \in {"/", "/health", "/favicon.ico"}
  /\ req' = [req EXCEPT ![r] = p]
  /\ LET answer ==
           IF p.path = "/"
           THEN [status |-> 200,
                 body |-> [html |-> lastReport, checkNames |-> getCheckNames("canary")]]
           ELSE IF p.path = "/health"
           THEN [status |-> 200, body |-> [status |-> "ok", app |-> "tweety"]]
           ELSE [status |-> 404, body |-> [error |-> "Not found"]]
     IN resp' = [resp EXCEPT ![r] = answer]
  /\ pc' = [pc EXCEPT ![r] = "done"]
  /\ UNCHANGED << lastReport, isRunning, runningStartedAt, now, run, inFlight,
                  calls, settled, faulty, steps, built, chk, http, poll, probe, adapter >>

\* fetch(req) for "/canary": acquireLock(), then runAllChecks() up to its
\* first await (the first check is invoked).
FetchCanary(r, p) ==
  /\ Arrives(r)
  /\ p.path = "/canary"
  /\ req' = [req EXCEPT ![r] = p]
  /\ LET a == acquireLock(isRunning, runningStartedAt, now)
         first == invokedAt(1, Len(registry))
     IN /\ isRunning' = a.isRunning
        /\ runningStartedAt' = a.runningStartedAt
        /\ IF ~a.ok
           THEN /\ resp' = [resp EXCEPT ![r] = [status |-> 429, body |-> BusyBody]]
                /\ pc' = [pc EXCEPT ![r] = "done"]
                /\ UNCHANGED << run, inFlight, calls >>
           ELSE /\ run' = [run EXCEPT ![r] = startAll("http", "canary", now)]
                /\ inFlight' = [inFlight EXCEPT ![r] = first]
                /\ calls' = [calls EXCEPT ![r] = [i \in first |-> 0]]
                /\ pc' = [pc EXCEPT ![r] = "run"]
                /\ UNCHANGED resp
  /\ UNCHANGED << lastReport, now, settled, faulty, steps, built, chk, http, poll, probe, adapter >>

\* fetch(req) for "/canary/:name": acquireLock(), then runCheck(name) up to
\* its first await; an unregistered name is answered 404 and the finally
\* block releases the lock at once.
FetchCheck(r, p) ==
  /\ Arrives(r)
  /\ p.path = "/canary/:name"
  /\ req' = [req EXCEPT ![r] = p]
  /\ LET a == acquireLock(isRunning, runningStartedAt, now)
         target == findTarget("canary", p.name)
     IN IF ~a.ok
        THEN /\ isRunning' = a.isRunning
             /\ runningStartedAt' = a.runningStartedAt
             /\ resp' = [resp EXCEPT ![r] = [status |-> 429, body |-> BusyBody]]
             /\ pc' = [pc EXCEPT ![r] = "done"]
             /\ UNCHANGED << run, inFlight, calls >>
        ELSE IF target = 0
        THEN /\ isRunning' = releaseLock("notfound")
             /\ runningStartedAt' = a.runningStartedAt
             /\ resp' = [resp EXCEPT ![r] =
                  [status |-> 404,
                   body |-> [error |-> "not found", checkName |-> p.name,
                             available |-> getCheckNames("canary")]]]
             /\ pc' = [pc EXCEPT ![r] = "done"]
             /\ UNCHANGED << run, inFlight, calls >>
        ELSE /\ isRunning' = a.isRunning
             /\ runningStartedAt' = a.runningStartedAt
             /\ run' = [run EXCEPT ![r] = startOne("http", "canary", target, now)]
             /\ inFlight' = [inFlight EXCEPT ![r] = {target}]
             /\ calls' = [calls EXCEPT ![r] = [i \in {target} |-> 0]]
             /\ pc' = [pc EXCEPT ![r] = "run"]
             /\ UNCHANGED resp
  /\ UNCHANGED << lastReport, now, settled, faulty, steps, built, chk, http, poll, probe, adapter >>

\* The host calls runAllChecks() / runAllHectorChecks() directly.
CallRunAll(r, runner) ==
  /\ Arrives(r)
  /\ Solo
  /\ req' = [req EXCEPT ![r] = [path |-> CallAllPath(runner), name |-> ""]]
  /\ LET first == invokedAt(1, Len(RegistryOf(runner)))
     IN /\ run' = [run EXCEPT ![r] = startAll("call", runner, now)]
        /\ inFlight' = [inFlight EXCEPT ![r] = first]
        /\ calls' = [calls EXCEPT ![r] = [i \in first |-> 0]]
  /\ pc' = [pc EXCEPT ![r] = "run"]
  /\ UNCHANGED << lastReport, isRunning, runningStartedAt, now, settled, resp,
                  faulty, steps, built, chk, http, poll, probe, adapter >>

\* The host calls runCheck(name) / runHectorCheck(name) directly.
CallRunOne(r, runner, name) ==
  /\ Arrives(r)
  /\ Solo
  /\ req' = [req EXCEPT ![r] = [path |-> CallOnePath(runner), name |-> name]]
  /\ LET target == findTarget(runner, name)
     IN IF target = 0
        THEN /\ resp' = [resp EXCEPT ![r] = [status |-> 0, body |-> Null]]
             /\ pc' = [pc EXCEPT ![r] = "done"]
             /\ UNCHANGED << run, inFlight, calls >>
        ELSE /\ run' = [run EXCEPT ![r] = startOne("call", runner, target, now)]
             /\ inFlight' = [inFlight EXCEPT ![r] = {target}]
             /\ calls' = [calls EXCEPT ![r] = [i \in {target} |-> 0]]
             /\ pc' = [pc EXCEPT ![r] = "run"]
             /\ UNCHANGED resp
  /\ UNCHANGED << lastReport, isRunning, runningStartedAt, now, settled,
                  faulty, steps, built, chk, http, poll, probe, adapter >>

\* A check in progress issues a request to the platform.
CheckHttp(r, i) ==
  /\ pc[r] = "run"
  /\ i \in inFlight[r]
  /\ i = run[r].idx => settled[r] = Pending
  /\ calls[r][i] < MaxCalls
  /\ calls' = [calls EXCEPT ![r][i] = @ + 1]
  /\ UNCHANGED << lastReport, isRunning, runningStartedAt, now, pc, req, run,
                  inFlight, settled, resp, faulty, steps, built, chk, http, poll, probe, adapter >>

\* The awaited check returns its result or throws.
CheckSettles(r, o) ==
  /\ pc[r] = "run"
  /\ run[r].idx \in inFlight[r]
  /\ settled[r] = Pending
  /\ o \in possible(RegistryOf(run[r].runner)[run[r].idx].fn)
  /\ settled' = [settled EXCEPT ![r] = o]
  /\ UNCHANGED << lastReport, isRunning, runningStartedAt, now, pc, req, run,
                  inFlight, calls, resp, faulty, steps, built, chk, http, poll, probe, adapter >>

\* runAllChecks resumes after its await: the result is pushed; the loop
\* invokes the next check, or the report is built and returned, in which
\* case the /canary handler stores it, answers and releases the lock.
ResumeAll(r) ==
  /\ pc[r] = "run"
  /\ run[r].kind = "all"
  /\ settled[r] # Pending
  /\ LET reg == RegistryOf(run[r].runner)
         i == run[r].idx
         checks == pushResult(run[r].checks, settle(reg[i], settled[r]))
         report == buildReport(run[r].runner, checks, run[r].start, now)
         nxt == (inFlight[r] \ {i}) \cup invokedAt(i + 1, Len(reg))
     IN IF i < Len(reg)
        THEN /\ run' = [run EXCEPT ![r].checks = checks, ![r].idx = i + 1]
             /\ inFlight' = [inFlight EXCEPT ![r] = nxt]
             /\ calls' = [calls EXCEPT ![r] =
                            [j \in nxt |-> IF j \in inFlight[r] THEN calls[r][j] ELSE 0]]
             /\ UNCHANGED << lastReport, isRunning, pc, resp >>
        ELSE /\ run' = [run EXCEPT ![r].checks = checks]
             /\ inFlight' = [inFlight EXCEPT ![r] = {}]
             /\ calls' = [calls EXCEPT ![r] = NoCalls]
             /\ pc' = [pc EXCEPT ![r] = "done"]
             /\ IF run[r].via = "http"
                THEN /\ lastReport' = report
                     /\ resp' = [resp EXCEPT ![r] = [status |-> 200, body |-> report]]
                     /\ isRunning' = releaseLock("report")
                ELSE /\ resp' = [resp EXCEPT ![r] = [status |-> 0, body |-> report]]
                     /\ UNCHANGED << lastReport, isRunning >>
  /\ settled' = [settled EXCEPT ![r] = Pending]
  /\ UNCHANGED << runningStartedAt, now, req, faulty, steps, built, chk, http, poll, probe, adapter >>

\* runCheck resumes after its await and returns the result, in which case
\* the /canary/:name handler answers with it and releases the lock.
ResumeOne(r) ==
  /\ pc[r] = "run"
  /\ run[r].kind = "one"
  /\ settled[r] # Pending
  /\ LET reg == RegistryOf(run[r].runner)
         result == settle(reg[run[r].idx], settled[r])
     IN IF run[r].via = "http"
        THEN /\ resp' = [resp EXCEPT ![r] = [status |-> 200, body |-> result]]
             /\ isRunning' = releaseLock("result")
        ELSE /\ resp' = [resp EXCEPT ![r] = [status |-> 0, body |-> result]]
             /\ UNCHANGED isRunning
  /\ inFlight' = [inFlight EXCEPT ![r] = {}]
  /\ calls' = [calls EXCEPT ![r] = NoCalls]
  /\ settled' = [settled EXCEPT ![r] = Pending]
  /\ pc' = [pc EXCEPT ![r] = "done"]
  /\ UNCHANGED << lastReport, runningStartedAt, now, req, run, faulty, steps, built, chk, http, poll, probe, adapter >>

\* Time passes.
Tick(d) ==
  /\ now + d <= MaxNow
  /\ now' = now + d
  /\ UNCHANGED << lastReport, isRunning, runningStartedAt, pc, req, run, inFlight,
                  calls, settled, resp, faulty, steps, built, chk, http, poll, probe, adapter >>

\* ------------------------------------------------------- specifications
InitBase ==
  /\ lastReport = Null
  /\ isRunning = FALSE
  /\ runningStartedAt = 0
  /\ now = 0
  /\ pc = [r \in Reqs |-> "new"]
  /\ req = [r \in Reqs |-> NoReq]
  /\ run = [r \in Reqs |-> NoRun]
  /\ inFlight = [r \in Reqs |-> {}]
  /\ calls = [r \in Reqs |-> NoCalls]
  /\ settled = [r \in Reqs |-> Pending]
  /\ resp = [r \in Reqs |-> NoResp]
  /\ built = Null

InitCommon ==
  /\ InitBase
  /\ probe = Null
  /\ adapter = Null
  /\ steps = <<>>
  /\ chk = Null
  /\ http = Null
  /\ poll = Null

\* The server: requests arrive at any time and overlap; every check passes.
\* The requests the checks send to the platform leave the server's state
\* alone and are followed in SpecRunner.
Init ==
  /\ InitCommon
  /\ faulty = {}

Next ==
  \/ \E r \in Reqs, p \in Paths : FetchPlain(r, p)
  \/ \E r \in Reqs, p \in Paths : FetchCanary(r, p)
  \/ \E r \in Reqs, p \in Paths : FetchCheck(r, p)
  \/ \E r \in Reqs, o \in Outcomes : CheckSettles(r, o)
  \/ \E r \in Reqs : ResumeAll(r)
  \/ \E r \in Reqs : ResumeOne(r)
  \/ \E d \in Deltas : Tick(d)

Spec == Init /\ [][Next]_vars


\* One direct call of a runner, or /canary/:name requests in turn, on a platform
\* that lets up to MaxFaults registered checks return anything or throw.
Runners == {"canary", "hector"}
CalledNames == OneNames \cup {"flow-gate"}
AllRegisteredFns == RegisteredFns("canary") \cup RegisteredFns("hector")

InitRunner ==
  /\ InitCommon
  /\ faulty \in { F \in SUBSET AllRegisteredFns : Cardinality(F) <= MaxFaults }

NextRunner ==
  \/ \E r \in Reqs, k \in Runners : CallRunAll(r, k)
  \/ \E r \in Reqs, k \in Runners, n \in CalledNames : CallRunOne(r, k, n)
  \/ \E r \in Reqs, p \in Paths : Quiet /\ FetchCheck(r, p)
  \/ \E r \in Reqs : \E i \in inFlight[r] : CheckHttp(r, i)
  \/ \E r \in Reqs, o \in Outcomes : CheckSettles(r, o)
  \/ \E r \in Reqs : ResumeAll(r)
  \/ \E r \in Reqs : ResumeOne(r)

SpecRunner == InitRunner /\ [][NextRunner]_vars

\* ---------------------------------------------------------- aggregation
\* buildResult of check function fn is applied to a step sequence.
RECURSIVE SeqsUpTo(_)
SeqsUpTo(n) ==
  IF n = 0 THEN { <<>> }
  ELSE SeqsUpTo(n - 1) \cup
       { Append(q, st) : q \in { x \in SeqsUpTo(n - 1) : Len(x) = n - 1 }, st \in CheckStatus }

Build(fn) ==
  /\ built = Null
  /\ built' = [fn |-> fn, result |-> buildResult(fn, steps, NoError)]
  /\ UNCHANGED << lastReport, isRunning, runningStartedAt, now, pc, req, run,
                  inFlight, calls, settled, resp, faulty, steps, chk, http, poll, probe, adapter >>

InitAgg ==
  /\ InitBase
  /\ probe = Null
  /\ adapter = Null
  /\ faulty = {}
  /\ chk = Null
  /\ http = Null
  /\ poll = Null
  /\ steps \in SeqsUpTo(MaxSteps)

NextAgg == \E fn \in FnNames : Build(fn)

SpecAgg == InitAgg /\ [][NextAgg]_vars

\* ------------------------------------------------------ check functions
\* A check function in progress: its position, the statuses of the steps
\* array, whether the resource it created still has to be cleaned up, and
\* the value of a `return buildResult(...)` that a finally block is still to
\* follow.
startCheck(fn, at) ==
  [fn |-> fn, pc |-> at, steps |-> <<>>, id |-> FALSE, built |-> Null,
   result |-> Null]

\* steps.push(step), then on to position `at`.
pushStep(c, st, at) == [c EXCEPT !.steps = Append(@, st), !.pc = at]

\* return buildResult(steps, checkStart, ...) inside the try block: the
\* result object is built now and the finally block runs before the caller
\* gets it.
returnBuilt(c) ==
  [c EXCEPT !.built = buildResult(c.fn, c.steps, NoError), !.pc = "finally"]

\* catch (err) { steps.push({ name: "unexpected error", status: "fail" }) }
catchUnexpected(c) == pushStep(c, "fail", "finally")

\* The caller gets the result: the object built inside the try block, whose
\* steps field is the very array the finally block has pushed to, or the one
\* the last line of the function builds.
finishCheck(c) ==
  [c EXCEPT !.pc = "returned",
            !.result = IF c.built # Null
                       THEN [c.built EXCEPT !.steps = c.steps]
                       ELSE buildResult(c.fn, c.steps, NoError)]

\* dataCrudCheck: the positions it can move to from position c.pc.
dataCrudCheck(c) ==
  IF c.pc = "preClean"
  THEN { [c EXCEPT !.pc = "createTable"], pushStep(c, "pass", "createTable") }
  ELSE IF c.pc = "createTable"
  THEN { pushStep(c, "pass", "insert"), returnBuilt(pushStep(c, "fail", "createTable")) }
  ELSE IF c.pc = "insert"
  THEN { [pushStep(c, "pass", "list") EXCEPT !.id = TRUE],
         pushStep(c, "fail", "finally") }
  ELSE IF c.pc = "list" THEN { pushStep(c, st, "getById") : st \in {"pass", "fail"} }
  ELSE IF c.pc = "getById" THEN { pushStep(c, st, "patch") : st \in {"pass", "fail"} }
  ELSE IF c.pc = "patch" THEN { pushStep(c, st, "verify") : st \in {"pass", "fail"} }
  ELSE IF c.pc = "verify" THEN { pushStep(c, st, "delete") : st \in {"pass", "fail"} }
  ELSE IF c.pc = "delete" THEN { pushStep(c, st, "finally") : st \in {"pass", "fail"} }
  ELSE IF c.pc = "finally"
  THEN { finishCheck(pushStep(c, st, "finally")) : st \in {"pass", "fail"} }
  ELSE {}

\* aiVoiceCheck: the positions it can move to from position c.pc.
aiVoiceCheck(c) ==
  IF c.pc = "status"
  THEN { returnBuilt(pushStep(c, "skip", "status")),
         returnBuilt(pushStep(c, "fail", "status")),
         pushStep(c, "pass", "voices") }
  ELSE IF c.pc = "voices"
  THEN { pushStep(c, st, "usage") : st \in {"skip", "pass", "fail"} }
  ELSE IF c.pc = "usage"
  THEN { pushStep(c, st, "finally") : st \in {"pass", "fail"} }
  ELSE IF c.pc = "finally" THEN { finishCheck(c) }
  ELSE {}

\* flowExecutionCheck: the positions it can move to from position c.pc.
flowExecutionCheck(c) ==
  IF c.pc = "create"
  THEN { [pushStep(c, "pass", "canvas") EXCEPT !.id = TRUE],
         returnBuilt(pushStep(c, "fail", "create")) }
  ELSE IF c.pc = "canvas"
  THEN { pushStep(c, "pass", "run"), pushStep(c, "fail", "run"),
         returnBuilt(pushStep(c, "fail", "canvas")) }
  ELSE IF c.pc = "run"
  THEN { pushStep(c, "pass", "poll"), returnBuilt(pushStep(c, "fail", "run")) }
  ELSE IF c.pc = "poll"
  THEN { pushStep(c, "pass", "results"),
         returnBuilt(pushStep(c, "fail", "poll")),
         returnBuilt(pushStep(pushStep(c, "fail", "poll"), "fail", "poll")) }
  ELSE IF c.pc = "results"
  THEN { [c EXCEPT !.pc = "source"], returnBuilt(pushStep(c, "fail", "results")) }
  ELSE IF c.pc = "source" THEN { pushStep(c, st, "llm") : st \in {"pass", "fail"} }
  ELSE IF c.pc = "llm"
  THEN { pushStep(c, "pass", "llmOutput"), pushStep(c, "fail", "output") }
  ELSE IF c.pc = "llmOutput"
  THEN { pushStep(pushStep(c, "pass", "output"), "pass", "output"),
         pushStep(pushStep(c, "pass", "output"), "warn", "output"),
         pushStep(pushStep(c, "fail", "output"), "warn", "output") }
  ELSE IF c.pc = "output" THEN { pushStep(c, st, "cost") : st \in {"pass", "fail"} }
  ELSE IF c.pc = "cost"
  THEN { [c EXCEPT !.pc = "delete"] }
         \cup { pushStep(c, st, "delete") : st \in {"pass", "warn"} }
  ELSE IF c.pc = "delete"
  THEN { [pushStep(c, "pass", "finally") EXCEPT !.id = FALSE],
         [pushStep(c, "fail", "finally") EXCEPT !.id = FALSE],
         pushStep(c, "fail", "finally") }
  ELSE IF c.pc = "finally"
  THEN IF c.id
       THEN { finishCheck(pushStep(c, st, "finally")) : st \in {"pass", "fail"} }
       ELSE { finishCheck(c) }
  ELSE {}

\* The check functions followed step by step, with their first position.
PathFns ==
  { [fn |-> "dataCrudCheck", at |-> "preClean"],
    [fn |-> "aiVoiceCheck", at |-> "status"],
    [fn |-> "flowExecutionCheck", at |-> "create"] }

\* Where check function c.fn can go from where it is.
checkMoves(c) ==
  IF c.fn = "dataCrudCheck" THEN dataCrudCheck(c)
  ELSE IF c.fn = "aiVoiceCheck" THEN aiVoiceCheck(c)
  ELSE flowExecutionCheck(c)

\* The check function runs up to its next await or to its return.
CheckStep ==
  /\ chk.pc \notin {"finally", "returned"}
  /\ \E c \in checkMoves(chk) : chk' = c
  /\ UNCHANGED << lastReport, isRunning, runningStartedAt, now, pc, req, run,
                  inFlight, calls, settled, resp, faulty, steps, built, http, poll, probe, adapter >>

\* Something inside the try block throws: the catch block records it.
CheckThrows ==
  /\ chk.pc \notin {"finally", "returned"}
  /\ chk' = catchUnexpected(chk)
  /\ UNCHANGED << lastReport, isRunning, runningStartedAt, now, pc, req, run,
                  inFlight, calls, settled, resp, faulty, steps, built, http, poll, probe, adapter >>

\* The finally block, if any, runs and the check function returns.
CheckReturns ==
  /\ chk.pc = "finally"
  /\ \E c \in checkMoves(chk) : chk' = c
  /\ UNCHANGED << lastReport, isRunning, runningStartedAt, now, pc, req, run,
                  inFlight, calls, settled, resp, faulty, steps, built, http, poll, probe, adapter >>

InitCheck ==
  /\ InitBase
  /\ probe = Null
  /\ adapter = Null
  /\ faulty = {}
  /\ steps = <<>>
  /\ http = Null
  /\ poll = Null
  /\ chk \in { startCheck(f.fn, f.at) : f \in PathFns }

NextCheck == CheckStep \/ CheckThrows \/ CheckReturns

SpecCheck == InitCheck /\ [][NextCheck]_vars

\* ------------------------------------------------------------ HttpClient
\* this.timeoutMs = config.timeoutMs ?? 10_000
DEFAULT_TIMEOUT_MS == 10000
\* timeoutMs: 30_000, the override functionsCheck passes to request()
LONG_TIMEOUT_MS == 30000

\* Amounts by which time advances while a request is under way, in ms.
HttpDeltas == {5000}

\* The two builds of HttpClient in the repository: the TypeScript source and
\* the bundle dist/index.js.
Builds == {"src", "dist"}

AuthModes == {"api-key", "admin-key", "none"}

\* options.headers as callers pass it: the header names it carries.
CallerHeaders == SUBSET {"Authorization", "x-api-key"}

\* options.body: absent, a plain object, an object JSON.stringify rejects.
Bodies == {"none", "plain", "circular"}

\* options.timeoutMs: 0 when the caller gives none.
TimeoutOptions == {0, LONG_TIMEOUT_MS}

\* Statuses the platform answers with, and payloads it sends.
Statuses == {200, 404, 503}
Payloads == {"{\"ok\":true}", "null", "<html>Bad Gateway</html>", ""}

\* JSON.parse(rawText): the parsed value, Null for the JSON text null; the
\* payloads that do not parse make it throw.
Parses(text) == text \in {"{\"ok\":true}", "null"}
parseJson(text) == IF text = "{\"ok\":true}" THEN [ok |-> TRUE] ELSE Null

dataOfAlways(text) == [ok |-> TRUE]

\* data after try { data = JSON.parse(rawText) } catch {}
dataOf(text) == IF Parses(text) THEN parseJson(text) ELSE Null

\* The headers request() sends: Accept, then the caller's headers spread
\* over it, then Content-Type when there is a body, then the credential of
\* the auth mode.
requestHeaders(auth, callerHeaders, body) ==
  LET base == [h \in {"Accept"} \cup callerHeaders |->
                 IF h = "Accept" THEN "application/json" ELSE "caller"]
      typed == IF body # "none"
               THEN [h \in DOMAIN base \cup {"Content-Type"} |->
                       IF h = "Content-Type" THEN "application/json" ELSE base[h]]
               ELSE base
  IN IF auth = "api-key"
     THEN [h \in DOMAIN typed \cup {"Authorization"} |->
             IF h = "Authorization" THEN "Bearer apiKey" ELSE typed[h]]
     ELSE IF auth = "admin-key"
     THEN [h \in DOMAIN typed \cup {"x-api-key"} |->
             IF h = "x-api-key" THEN "adminKey" ELSE typed[h]]
     ELSE typed

\* The delay given to setTimeout(() => controller.abort(), ...): the source
\* uses this.timeoutMs, the bundle options?.timeoutMs ?? this.timeoutMs.
effectiveTimeout(build, timeoutOpt) ==
  IF build = "dist" /\ timeoutOpt # 0 THEN timeoutOpt ELSE DEFAULT_TIMEOUT_MS

\* What the catch block of request() makes of what was thrown.
AbortError == [kind |-> "abort", message |-> "The operation was aborted."]
errorOf(err, timeout) ==
  IF err.kind = "abort" THEN [text |-> "Request timed out after ", ms |-> timeout]
  ELSE IF err.kind = "error" THEN [text |-> err.message, ms |-> 0]
  ELSE [text |-> err.value, ms |-> 0]

insideTryFetchOnly(site) == site = "fetch"

\* Whether the try block of request() encloses the given operation.
insideTry(site) == site \in {"stringify", "fetch", "text", "parse"}

\* What fetch() and resp.text() reject with besides an abort.
TransportErrors ==
  { [kind |-> "error", message |-> "Unable to connect", value |-> ""],
    [kind |-> "value", message |-> "", value |-> "socket hang up"] }

\* A call of request() before it has run.
newRequest(build, auth, callerHeaders, body, timeoutOpt) ==
  [phase |-> "new", build |-> build, auth |-> auth, callerHeaders |-> callerHeaders,
   body |-> body, timeoutOpt |-> timeoutOpt, headers |-> [h \in {} |-> ""],
   timer |-> 0, elapsed |-> 0, received |-> FALSE, payload |-> "", fired |-> FALSE,
   status |-> 0, rawText |-> "", data |-> Null, error |-> Null,
   result |-> Null]

\* return { status, data, rawText, durationMs, error } after the finally
\* block; an operation outside the try block lets what it throws escape.
settleRequest(h, site, err) ==
  IF err # Null /\ ~insideTry(site)
  THEN [h EXCEPT !.phase = "raised"]
  ELSE LET e == IF err = Null THEN Null ELSE errorOf(err, h.timer)
       IN [h EXCEPT !.phase = "done", !.error = e,
                    !.result = [status |-> h.status, data |-> h.data,
                                rawText |-> h.rawText, durationMs |-> h.elapsed,
                                error |-> e]]

HttpFrame ==
  UNCHANGED << lastReport, isRunning, runningStartedAt, now, pc, req, run,
               inFlight, calls, settled, resp, faulty, steps, built, chk, poll, probe, adapter >>

\* request() runs up to `await fetch(...)`: headers, timer, the body turned
\* into JSON.
HttpSend ==
  /\ http.phase = "new"
  /\ LET h == [http EXCEPT
                 !.headers = requestHeaders(http.auth, http.callerHeaders, http.body),
                 !.timer = effectiveTimeout(http.build, http.timeoutOpt)]
     IN http' = IF http.body = "circular"
                THEN settleRequest(h, "stringify",
                       [kind |-> "error", value |-> "",
                        message |-> "JSON.stringify cannot serialize cyclic structures."])
                ELSE [h EXCEPT !.phase = "fetching"]
  /\ HttpFrame

\* The response head arrives: status = resp.status, then `await resp.text()`.
HttpHead(st) ==
  /\ http.phase = "fetching"
  /\ http' = [http EXCEPT !.phase = "reading", !.status = st]
  /\ HttpFrame

\* fetch() rejects: connection refused, DNS failure, ...
HttpReject(err) ==
  /\ http.phase = "fetching"
  /\ http' = settleRequest(http, "fetch", err)
  /\ HttpFrame

\* The body has been read in full: rawText, then JSON.parse.
HttpBody(text) ==
  /\ http.phase = "reading"
  /\ http' = settleRequest([http EXCEPT !.rawText = text, !.data = dataOf(text),
                                        !.received = TRUE, !.payload = text],
                           "parse", Null)
  /\ HttpFrame

\* resp.text() rejects: the connection broke while the body was read.
HttpBodyFail(err) ==
  /\ http.phase = "reading"
  /\ http' = settleRequest(http, "text", err)
  /\ HttpFrame

\* The timer fires: controller.abort() makes the pending fetch() or
\* resp.text() reject with an AbortError.
HttpAbort ==
  /\ http.phase \in {"fetching", "reading"}
  /\ http.elapsed >= http.timer
  /\ http' = settleRequest([http EXCEPT !.fired = TRUE],
                           IF http.phase = "fetching" THEN "fetch" ELSE "text",
                           AbortError)
  /\ HttpFrame

\* Time passes while the request waits; a timer that is due fires first.
HttpTick(d) ==
  /\ http.phase \in {"fetching", "reading"}
  /\ http.elapsed < http.timer
  /\ http' = [http EXCEPT !.elapsed = @ + d]
  /\ HttpFrame

InitHttp ==
  /\ InitBase
  /\ probe = Null
  /\ adapter = Null
  /\ faulty = {}
  /\ steps = <<>>
  /\ chk = Null
  /\ poll = Null
  /\ http \in { newRequest(b, a, ch, bd, t) :
                  b \in Builds, a \in AuthModes, ch \in CallerHeaders,
                  bd \in Bodies, t \in TimeoutOptions }

NextHttp ==
  \/ HttpSend
  \/ \E st \in Statuses : HttpHead(st)
  \/ \E err \in TransportErrors : HttpReject(err)
  \/ \E text \in Payloads : HttpBody(text)
  \/ \E err \in TransportErrors : HttpBodyFail(err)
  \/ HttpAbort
  \/ \E d \in HttpDeltas : HttpTick(d)

SpecHttp == InitHttp /\ [][NextHttp]_vars

\* ------------------------------------------------------------ poll loops
\* appLifecycleCheck, deploy poll loop
DEPLOY_POLL_INTERVAL_MS == 5000
DEPLOY_TIMEOUT_MS == 120000
\* flow-gate.ts, runAndPoll
POLL_INTERVAL_MS == 2000
MAX_POLL_MS == 30000
\* flowExecutionCheck: its own POLL_INTERVAL_MS and MAX_POLL_MS
FLOW_POLL_INTERVAL_MS == 2000
FLOW_MAX_POLL_MS == 60000
\* functionsCheck, invocation poll: for (attempt = 1; attempt <= 10; ...)
\* with a wait of 1000 ms before each poll
INVOCATION_ATTEMPTS == 10
INVOCATION_WAIT_MS == 1000

\* The latest call on which the polled operation first gives a terminal result.
MaxTerminalAt == 32

\* Time one call of the polled operation (an http.get) takes, in ms.
CallLatencies == {0, 250}

\* appLifecycleCheck asks the subdomain of the app for up to 30 s, 3 s apart
SUBDOMAIN_TIMEOUT_MS == 30000
SUBDOMAIN_RETRY_INTERVAL_MS == 3000

PollLoops == {"deploy", "runAndPoll", "flowExecution", "invocation"}

\* The loops that repeat an operation until a result or a deadline: the
\* poll loops and the subdomain loop of appLifecycleCheck.
RepeatLoops == PollLoops \cup {"subdomain"}

\* Whether the body of the loop invokes the operation before it sleeps.
callsFirst(loop) == loop = "subdomain"

intervalOf(loop) ==
  IF loop = "deploy" THEN DEPLOY_POLL_INTERVAL_MS
  ELSE IF loop = "runAndPoll" THEN POLL_INTERVAL_MS
  ELSE IF loop = "flowExecution" THEN FLOW_POLL_INTERVAL_MS
  ELSE IF loop = "subdomain" THEN SUBDOMAIN_RETRY_INTERVAL_MS
  ELSE INVOCATION_WAIT_MS

\* The time the loop allows itself; the invocation poll counts attempts, ten
\* of them a second apart ("within 10 poll attempts (10s)").
budgetOf(loop) ==
  IF loop = "deploy" THEN DEPLOY_TIMEOUT_MS
  ELSE IF loop = "runAndPoll" THEN MAX_POLL_MS
  ELSE IF loop = "flowExecution" THEN FLOW_MAX_POLL_MS
  ELSE IF loop = "subdomain" THEN SUBDOMAIN_TIMEOUT_MS
  ELSE INVOCATION_ATTEMPTS * INVOCATION_WAIT_MS

\* What one call of the polled operation answers: a status, a success whose
\* output fails validation, or a failed request (pollResp.error set or, in
\* the loops that look at it, a status other than 200).
PollError == "(error)"
BadOutput == "success (bad output)"
PollResults == {"building", "queued", "running", "success", BadOutput, "completed",
                "failed", "error", "timeout", "unreachable", "live", PollError}

Progressing(loop) ==
  IF loop = "deploy" THEN {"building", PollError}
  ELSE IF loop = "invocation" THEN {"queued", "running", PollError}
  ELSE IF loop = "subdomain" THEN {"unreachable", PollError}
  ELSE {"queued", "running"}

Terminal(loop) ==
  IF loop = "deploy" THEN {"success", "failed", "error"}
  ELSE IF loop = "invocation" THEN {"success", BadOutput, "error", "timeout"}
  ELSE IF loop = "subdomain" THEN {"live"}
  ELSE {"completed", "failed", PollError}

isTerminalSuccessOnly(loop, res) == res \in {"success", "completed"}

isTerminalErrorStops(loop, res) == res \notin {"building", "queued", "running"}

\* The results after which the loop breaks.
isTerminal(loop, res) ==
  IF loop = "deploy"
  THEN res \in {"success", "failed", "error"}
  ELSE IF loop = "invocation"
  THEN res \in {"success", BadOutput, "error", "timeout"}
  ELSE IF loop = "subdomain"
  THEN res = "live"
  ELSE res = PollError \/ res \notin {"queued", "running"}

budgetLeftAfterSleep(p) ==
  IF p.loop = "invocation" THEN p.pollCount < INVOCATION_ATTEMPTS
  ELSE p.elapsed < p.budget + p.interval + p.latency

budgetLeftAlways(p) == TRUE

\* while (performance.now() - pollStart < budget); attempt <= 10
budgetLeft(p) ==
  IF p.loop = "invocation" THEN p.pollCount < INVOCATION_ATTEMPTS
  ELSE p.elapsed < p.budget

\* A poll loop about to start: pollStart taken, status and pollCount set.
startPoll(loop, k, latency) ==
  [loop |-> loop, interval |-> intervalOf(loop), budget |-> budgetOf(loop),
   terminalAt |-> k, latency |-> latency, pc |-> "test", elapsed |-> 0,
   pollCount |-> 0, calls |-> 0, lastCallAt |-> 0,
   status |-> IF loop = "deploy" THEN "pending"
              ELSE IF loop = "invocation" THEN "none" ELSE "queued",
   last |-> "none", sawError |-> FALSE, badOutput |-> FALSE, steps |-> <<>>]

\* stepFromResponse(`... (poll #n)`, pollResp, 200) for a failed poll.
failedPollStep(p) == [status |-> "fail", polls |-> p.pollCount, error |-> TRUE]


\* The step that reports the polling: pass when the last status seen is the
\* success state (and, for an invocation, its output is the expected one).
pollStep(p) ==
  LET ok == IF p.loop = "deploy" THEN p.status = "success"
            ELSE IF p.loop = "invocation" THEN p.status = "success" /\ ~p.badOutput
            ELSE IF p.loop = "subdomain" THEN p.status = "live"
            ELSE p.status = "completed"
  IN [status |-> IF ok THEN "pass" ELSE "fail", polls |-> p.pollCount, error |-> ~ok]

\* The body of the loop after the call has answered res.
afterCall(p, res) ==
  LET seen == IF res = PollError THEN p.status
              ELSE IF res = BadOutput THEN "success" ELSE res
  IN [p EXCEPT !.status = seen,
               !.last = res,
               !.sawError = @ \/ res = PollError,
               !.badOutput = res = BadOutput,
               !.steps = IF p.loop = "flowExecution" /\ res = PollError
                         THEN Append(@, failedPollStep(p)) ELSE @,
               !.pc = IF isTerminal(p.loop, res) THEN "done"
                      ELSE IF callsFirst(p.loop) THEN "sleep" ELSE "test"]

PollFrame ==
  UNCHANGED << lastReport, isRunning, runningStartedAt, now, pc, req, run,
               inFlight, calls, settled, resp, faulty, steps, built, chk, http, probe, adapter >>

\* The loop condition is evaluated; the subdomain loop counts the attempt
\* (subRetries++) and goes on to the request.
PollTest ==
  /\ poll.pc = "test"
  /\ poll' = IF ~budgetLeft(poll) THEN [poll EXCEPT !.pc = "done"]
             ELSE IF callsFirst(poll.loop)
             THEN [poll EXCEPT !.pollCount = @ + 1, !.pc = "call"]
             ELSE [poll EXCEPT !.pc = "sleep"]
  /\ PollFrame

\* await sleep(interval); pollCount++
PollSleep ==
  /\ poll.pc = "sleep"
  /\ poll' = IF callsFirst(poll.loop)
             THEN [poll EXCEPT !.elapsed = @ + poll.interval, !.pc = "test"]
             ELSE [poll EXCEPT !.elapsed = @ + poll.interval, !.pollCount = @ + 1,
                               !.pc = "call"]
  /\ PollFrame

\* await http.get(...): the operation is invoked and answers.
PollCall(res) ==
  /\ poll.pc = "call"
  /\ IF poll.calls + 1 >= poll.terminalAt
     THEN res \in Terminal(poll.loop)
     ELSE res \in Progressing(poll.loop)
  /\ poll' = afterCall([poll EXCEPT !.calls = @ + 1, !.lastCallAt = poll.elapsed,
                                    !.elapsed = @ + poll.latency], res)
  /\ PollFrame

\* After the loop: steps.push(pollStep).
PollStep ==
  /\ poll.pc = "done"
  /\ poll' = [poll EXCEPT !.steps = Append(@, pollStep(poll)), !.pc = "stepped"]
  /\ PollFrame

InitPoll ==
  /\ InitBase
  /\ probe = Null
  /\ adapter = Null
  /\ faulty = {}
  /\ steps = <<>>
  /\ chk = Null
  /\ http = Null
  /\ poll \in { startPoll(l, k, lat) :
                  l \in PollLoops, k \in 1..MaxTerminalAt, lat \in CallLatencies }

NextPoll ==
  \/ PollTest
  \/ PollSleep
  \/ \E res \in PollResults : PollCall(res)
  \/ PollStep

SpecPoll == InitPoll /\ [][NextPoll]_vars

\* The loop runs on: a timer that was set fires and a request that was
\* issued resolves, at the latest at its timeout, and the continuation
\* that waits for either is then run.
SpecPollFair == SpecPoll /\ WF_vars(NextPoll)

\* The poll loops and the subdomain loop.
InitRepeat ==
  /\ InitBase
  /\ probe = Null
  /\ adapter = Null
  /\ faulty = {}
  /\ steps = <<>>
  /\ chk = Null
  /\ http = Null
  /\ poll \in { startPoll(l, k, lat) :
                  l \in RepeatLoops, k \in 1..MaxTerminalAt, lat \in CallLatencies }

SpecRepeat == InitRepeat /\ [][NextPoll]_vars

\* ------------------------------------------- check functions, by request
\* Polls a check followed request by request makes at most, per polling phase.
MaxProbePolls == 2

\* An HttpResponse as far as the checks look at it: the status, whether
\* error is set, and whether the body is what the check's validation wants
\* (carries the identifier, lists the resource, ...).
Answer(st, valid) == [status |-> st, error |-> FALSE, valid |-> valid]
TransportFailure == [status |-> 0, error |-> TRUE, valid |-> FALSE]

\* A StepResult: what the step is about, its status, whether it has an error.
Step(name, st, err) == [name |-> name, status |-> st, error |-> err]

\* stepFromResponse(name, resp, expectedStatus, validate?)
stepFromResponse(name, r, expected, validated) ==
  IF r.error THEN Step(name, "fail", TRUE)
  ELSE IF r.status \notin expected THEN Step(name, "fail", TRUE)
  ELSE IF validated /\ ~r.valid THEN Step(name, "fail", TRUE)
  ELSE Step(name, "pass", FALSE)

\* The platform took the request: it answered with a 2xx status.
Accepted(r) == ~r.error /\ r.status \in {200, 201, 202, 204}

\* A check function about to run. log: the requests issued so far with
\* their responses; id: the identifier captured from the create response;
\* remote: whether the resource the check creates exists on the platform.
\* ident: whether the identifier the check takes from the environment
\* (KAPABLE_ORG_ID, KAPABLE_PROJECT_ID, KAPABLE_APP_ID) is set.
startProbe(fn, at, ident) ==
  [fn |-> fn, pc |-> at, ident |-> ident, steps |-> <<>>, log |-> <<>>,
   id |-> FALSE, remote |-> FALSE, fatal |-> FALSE, own |-> FALSE, flowIds |-> 0,
   attempt |-> 0,
   built |-> Null, result |-> Null]

\* A request is issued and answered.
request(c, op, r) ==
  [c EXCEPT !.log = Append(@, [op |-> op, resp |-> r, state |-> ""])]

\* A request of a polling phase is issued and answered; state is what the
\* answer says of the thing polled.
polled(c, op, r, state) ==
  [c EXCEPT !.log = Append(@, [op |-> op, resp |-> r, state |-> state])]

\* steps.push(step)
push(c, st) == [c EXCEPT !.steps = Append(@, st)]

goto(c, at) == [c EXCEPT !.pc = at, !.attempt = 0]

\* The statuses of a steps array.
statusesOf(ss) == [i \in 1..Len(ss) |-> ss[i].status]

\* performance.now() - checkStart, on a clock that advances by one while a
\* request is in flight: the requests answered so far.
elapsed(c) == Len(c.log)

\* buildResult(steps, checkStart, errorMsg?)
probeResult(c, msg) ==
  [name |-> FnInfo(c.fn).name, status |-> aggregateOf(c.fn, statusesOf(c.steps)),
   durationMs |-> elapsed(c),
   steps |-> c.steps, error |-> msg]

\* return buildResult(steps, checkStart, msg) inside the try block: the
\* finally block runs before the caller gets the result.
returnEarly(c, msg) == [c EXCEPT !.built = probeResult(c, [text |-> msg]),
                                 !.pc = "finally", !.attempt = 0]

\* return { name, status, durationMs, steps: [ ... ] } inside the try block:
\* the object returned has a steps array of its own.
returnLiteral(c, res) == [c EXCEPT !.built = res, !.own = TRUE,
                                   !.pc = "finally", !.attempt = 0]

\* The caller gets the result: the object built by an early return, whose
\* steps field is the array the finally block has pushed to unless the
\* object has an array of its own, or the one the last line of the function
\* builds.
finishProbe(c) ==
  [c EXCEPT !.pc = "returned",
            !.result = IF c.built # Null
                       THEN IF c.own THEN c.built
                            ELSE [c.built EXCEPT !.steps = c.steps]
                       ELSE probeResult(c, IF c.fatal
                                               THEN [text |-> "Check encountered fatal error"]
                                               ELSE Null)]

\* Responses of the platform to the kinds of request the checks make.
CreateResponses == { Answer(201, TRUE), Answer(201, FALSE), Answer(409, FALSE),
                     Answer(500, FALSE), TransportFailure }
ReadResponses == { Answer(200, TRUE), Answer(200, FALSE), Answer(500, FALSE) }
DeleteResponses == { Answer(204, TRUE), Answer(500, FALSE), TransportFailure }
StopResponses == { Answer(200, TRUE), TransportFailure }

\* appLifecycleCheck, after the create request and its retries:
\* the create step, then on or out.
appCreated(c, r) ==
  LET st == stepFromResponse("create", r, {200, 201}, TRUE)
      d == [push(c, st) EXCEPT !.id = st.status = "pass",
                               !.remote = @ \/ Accepted(r)]
  IN IF d.id THEN goto(d, "verify")
     ELSE returnEarly(d, "Cannot proceed without app ID")

\* appLifecycleCheck, after the deploy poll loop: the poll step.
appPolled(c, deployStatus) ==
  IF deployStatus = "success"
  THEN goto(push(c, Step("poll", "pass", FALSE)), "subdomain")
  ELSE returnEarly(push(c, Step("poll", "fail", TRUE)), "Deploy did not succeed")

\* appLifecycleCheck: where it can be after its next request.
appLifecycleProbe(c) ==
  IF c.pc = "list"
  THEN { goto(request(c, "list", r),
              IF ~r.error /\ r.valid THEN "preStop" ELSE "create") :
           r \in {Answer(200, TRUE), Answer(200, FALSE), TransportFailure} }
  ELSE IF c.pc = "preStop"
  THEN { goto(request(c, "stop", r), "preDelete") : r \in StopResponses }
  ELSE IF c.pc = "preDelete"
  THEN { LET d == request(c, "delete", r)
         IN IF ~r.error \/ r.status = 404
            THEN goto(push(d, Step("pre-cleanup", "pass", FALSE)), "create")
            ELSE IF c.attempt + 1 = 5
            THEN goto(push(d, Step("pre-cleanup", "fail", TRUE)), "create")
            ELSE [d EXCEPT !.attempt = @ + 1] :
           r \in DeleteResponses }
  ELSE IF c.pc = "create"
  THEN { LET d == request(c, "create", r)
         IN IF r.status = 409 THEN goto(d, "createRetry") ELSE appCreated(d, r) :
           r \in CreateResponses }
  ELSE IF c.pc = "createRetry"
  THEN { LET d == request(c, "create", r)
         IN IF r.status # 409 \/ c.attempt + 1 = 3
            THEN appCreated(d, r)
            ELSE [d EXCEPT !.attempt = @ + 1] :
           r \in CreateResponses }
  ELSE IF c.pc = "verify"
  THEN { goto(push(request(c, "get", r), stepFromResponse("verify", r, {200}, TRUE)),
              "deploy") : r \in ReadResponses }
  ELSE IF c.pc = "deploy"
  THEN { LET st == stepFromResponse("deploy", r, {200, 201, 202}, TRUE)
             d == push(request(c, "deploy", r), st)
         IN IF st.status = "pass" THEN goto(d, "poll")
            ELSE returnEarly(d, "Cannot proceed without deployment ID") :
           r \in {Answer(202, TRUE), Answer(202, FALSE), Answer(500, FALSE)} }
  ELSE IF c.pc = "poll"
  THEN { LET d == polled(c, "pollDeploy", Answer(200, TRUE), res)
         IN IF res = "building" /\ c.attempt + 1 < MaxProbePolls
            THEN [d EXCEPT !.attempt = @ + 1]
            ELSE appPolled(d, res) :
           res \in {"building", "success", "failed"} }
  ELSE IF c.pc = "subdomain"
  THEN { LET d == polled(c, "pollSubdomain", r,
                             IF r.status = 200 THEN "live" ELSE "unreachable")
         IN IF r.status = 200
            THEN goto(push(d, Step("subdomain", "pass", FALSE)), "finally")
            ELSE IF c.attempt + 1 = MaxProbePolls
            THEN goto(push(d, Step("subdomain", "fail", TRUE)), "finally")
            ELSE [d EXCEPT !.attempt = @ + 1] :
           r \in {Answer(200, TRUE), Answer(502, FALSE), TransportFailure} }
  ELSE IF c.pc = "finally"
  THEN IF c.id THEN { goto(c, "stop") } ELSE { finishProbe(c) }
  ELSE IF c.pc = "stop"
  THEN { goto(request(c, "stop", r), "delete") : r \in StopResponses }
  ELSE IF c.pc = "delete"
  THEN { LET d == [request(c, "delete", r) EXCEPT !.remote = @ /\ ~Accepted(r)]
         IN IF ~r.error \/ c.attempt + 1 = 5
            THEN finishProbe(push(d, stepFromResponse("cleanup", r, {200, 204, 404}, FALSE)))
            ELSE [d EXCEPT !.attempt = @ + 1] :
           r \in DeleteResponses }
  ELSE {}

unsetNever(c) == FALSE

\* if (!orgId), if (!projectId), if (!appId)
unset(c) == ~c.ident

\* return { name, status: "skip", steps: [{ ..., status: "skip" }] }
skipUnset(c) ==
  [c EXCEPT !.pc = "returned",
            !.result = [name |-> FnInfo(c.fn).name, status |-> "skip",
                        durationMs |-> elapsed(c),
                        steps |-> << Step("identifier not set", "skip", FALSE) >>,
                        error |-> Null]]

\* usageCheck: where it can be after its next request.
usageProbe(c) ==
  IF c.pc = "entry"
  THEN IF unset(c) THEN { skipUnset(c) } ELSE { goto(c, "usage") }
  ELSE IF c.pc = "usage"
  THEN UNION {
         LET d == push(request(c, "get", r), stepFromResponse("get usage", r, {200}, TRUE))
         IN IF r.status = 200 /\ r.valid
            THEN { goto(push(push(d, dates), counts), "finally") :
                     dates \in { Step("period dates", "pass", FALSE),
                                 Step("period dates", "fail", TRUE) },
                     counts \in { Step("projects_count", "pass", FALSE),
                                  Step("projects_count", "fail", TRUE) } }
            ELSE { goto(d, "finally") } :
         r \in ReadResponses \cup {TransportFailure} }
  ELSE IF c.pc = "finally" THEN { finishProbe(c) }
  ELSE {}

\* The message of the early return after the create step.
cannotProceed(fn) ==
  IF fn = "webhooksCheck" THEN "Cannot proceed without webhook ID"
  ELSE IF fn = "schedulesCheck" THEN "Cannot proceed without schedule ID"
  ELSE IF fn = "functionsCheck" THEN "Cannot proceed without function ID"
  ELSE IF fn = "documentsCheck" THEN "Cannot proceed without document ID"
  ELSE IF fn = "secretsCheck" THEN "Cannot proceed without secret"
  ELSE IF fn = "togglesCheck" THEN "Cannot proceed without flag"
  ELSE "Cannot proceed without table"

\* webhooksCheck, schedulesCheck, functionsCheck, documentsCheck: where the
\* check can be after its next request. They differ in the identifier they
\* need, in the resource, and in the steps between create and delete:
\* functionsCheck also looks its function up in the list, documentsCheck
\* updates its document and reads it again.
crudProbe(c) ==
  IF c.pc = "entry"
  THEN IF unset(c) THEN { skipUnset(c) } ELSE { goto(c, "preList") }
  ELSE IF c.pc = "preList"
  THEN { goto(request(c, "list", r), IF r.valid THEN "preDelete" ELSE "create") :
           r \in {Answer(200, TRUE), Answer(200, FALSE), TransportFailure} }
  ELSE IF c.pc = "preDelete"
  THEN { LET d == request(c, "delete", r)
         IN goto(IF r.status \in {200, 204}
                 THEN push(d, Step("pre-cleanup", "pass", FALSE)) ELSE d,
                 "create") :
           r \in DeleteResponses }
  ELSE IF c.pc = "create"
  THEN { LET st == stepFromResponse("create", r, {201}, TRUE)
             d == [push(request(c, "create", r), st)
                     EXCEPT !.id = st.status = "pass", !.remote = Accepted(r)]
         IN IF d.id
            THEN goto(d, IF c.fn = "functionsCheck" THEN "list" ELSE "get")
            ELSE returnEarly(d, cannotProceed(c.fn)) :
           r \in CreateResponses \cup {Answer(200, TRUE)} }
  ELSE IF c.pc = "list"
  THEN { goto(push(request(c, "list", r), stepFromResponse("list", r, {200}, TRUE)),
              "get") : r \in ReadResponses }
  ELSE IF c.pc = "get"
  THEN { goto(push(request(c, "get", r), stepFromResponse("get", r, {200}, TRUE)),
              IF c.fn = "documentsCheck" THEN "update" ELSE "delete") :
           r \in ReadResponses }
  ELSE IF c.pc = "update"
  THEN { goto(push(request(c, "update", r), stepFromResponse("update", r, {200}, FALSE)),
              "verify") : r \in ReadResponses }
  ELSE IF c.pc = "verify"
  THEN { goto(push(request(c, "get", r), stepFromResponse("verify", r, {200}, TRUE)),
              "delete") : r \in ReadResponses }
  ELSE IF c.pc = "delete"
  THEN { LET d == push(request(c, "delete", r),
                       stepFromResponse("delete", r, {204}, FALSE))
         IN goto([d EXCEPT !.id = r.status # 204, !.remote = @ /\ ~Accepted(r)],
                 "finally") :
           r \in DeleteResponses }
  ELSE IF c.pc = "finally"
  THEN IF c.id THEN { goto(c, "cleanup") } ELSE { finishProbe(c) }
  ELSE IF c.pc = "cleanup"
  THEN { LET d == push(request(c, "delete", r),
                       stepFromResponse("cleanup", r, {204, 404}, FALSE))
         IN finishProbe([d EXCEPT !.remote = @ /\ ~Accepted(r)]) :
           r \in DeleteResponses \cup {Answer(404, FALSE)} }
  ELSE {}

\* tokensCheck: where it can be after its next request.
tokensProbe(c) ==
  IF c.pc = "create"
  THEN { LET st == stepFromResponse("create", r, {200, 201}, TRUE)
             d == [push(request(c, "create", r), st)
                     EXCEPT !.id = st.status = "pass", !.remote = Accepted(r)]
         IN IF d.id THEN goto(d, "list")
            ELSE returnEarly(d, "Cannot proceed without token jti") :
           r \in CreateResponses }
  ELSE IF c.pc = "list"
  THEN { goto(push(request(c, "list", r), stepFromResponse("list", r, {200}, TRUE)),
              "revoke") : r \in ReadResponses }
  ELSE IF c.pc = "revoke"
  THEN { LET d == push(request(c, "delete", r),
                       stepFromResponse("revoke", r, {200, 204}, FALSE))
         IN goto([d EXCEPT !.remote = @ /\ ~Accepted(r)], "verify") :
           r \in DeleteResponses }
  ELSE IF c.pc = "verify"
  THEN { goto(push(request(c, "list", r), stepFromResponse("verify", r, {200}, TRUE)),
              "finally") : r \in ReadResponses }
  ELSE IF c.pc = "catch"
  THEN IF c.id
       THEN { finishProbe([request(c, "delete", r) EXCEPT !.remote = @ /\ ~Accepted(r)]) :
                r \in DeleteResponses }
       ELSE { finishProbe(c) }
  ELSE IF c.pc = "finally" THEN { finishProbe(c) }
  ELSE {}

\* The statuses secretsCheck and togglesCheck take for a create that worked.
createdStatuses(fn) == IF fn = "secretsCheck" THEN {201} ELSE {200, 201}

\* if (secretCreated), if (flagCreated): the guard of the cleanup in finally.
cleanupDue(c) == c.id

\* secretsCheck, togglesCheck: where the check can be after its next
\* request. Both address their resource by a fixed name and remember in a
\* flag (here id) that they created it.
namedProbe(c) ==
  IF c.pc = "preClean"
  THEN { LET d == request(c, "delete", r)
         IN goto(IF r.status \in {200, 204}
                 THEN push(d, Step("pre-cleanup", "pass", FALSE)) ELSE d,
                 "create") :
           r \in DeleteResponses \cup {Answer(404, FALSE)} }
  ELSE IF c.pc = "create"
  THEN { LET st == stepFromResponse("create", r, createdStatuses(c.fn),
                                    c.fn = "secretsCheck")
             d == [push(request(c, "create", r), st)
                     EXCEPT !.id = r.status \in createdStatuses(c.fn),
                            !.remote = Accepted(r)]
         IN IF d.id THEN goto(d, "get")
            ELSE returnEarly(d, cannotProceed(c.fn)) :
           r \in CreateResponses }
  ELSE IF c.pc = "get"
  THEN { goto(push(request(c, "get", r), stepFromResponse("get", r, {200}, TRUE)),
              IF c.fn = "secretsCheck" THEN "list" ELSE "evaluate") :
           r \in ReadResponses }
  ELSE IF c.pc = "list"
  THEN { goto(push(request(c, "list", r), stepFromResponse("list", r, {200}, TRUE)),
              "delete") : r \in ReadResponses }
  ELSE IF c.pc = "delete"
  THEN { LET d == push(request(c, "delete", r),
                       stepFromResponse("delete", r, {204}, FALSE))
         IN goto([d EXCEPT !.id = r.status # 204, !.remote = @ /\ ~Accepted(r)],
                 "verifyGone") :
           r \in DeleteResponses }
  ELSE IF c.pc = "verifyGone"
  THEN { goto(push(request(c, "get", r), stepFromResponse("verify gone", r, {404}, FALSE)),
              "finally") : r \in {Answer(404, FALSE), Answer(200, TRUE)} }
  ELSE IF c.pc = "evaluate"
  THEN { goto(push(request(c, "evaluate", r), stepFromResponse("evaluate", r, {200}, TRUE)),
              "update") : r \in ReadResponses }
  ELSE IF c.pc = "update"
  THEN { goto(push(request(c, "update", r), stepFromResponse("update", r, {200}, FALSE)),
              "evaluateAgain") : r \in ReadResponses }
  ELSE IF c.pc = "evaluateAgain"
  THEN { goto(push(request(c, "evaluate", r), stepFromResponse("evaluate", r, {200}, TRUE)),
              "finally") : r \in ReadResponses }
  ELSE IF c.pc = "finally"
  THEN IF cleanupDue(c) THEN { goto(c, "cleanup") } ELSE { finishProbe(c) }
  ELSE IF c.pc = "cleanup"
  THEN { LET d == push(request(c, "delete", r),
                       stepFromResponse("cleanup", r,
                         IF c.fn = "secretsCheck" THEN {204, 404} ELSE {200, 204, 404},
                         FALSE))
         IN finishProbe([d EXCEPT !.remote = @ /\ ~Accepted(r)]) :
           r \in DeleteResponses \cup {Answer(404, FALSE)} }
  ELSE {}

\* dataCrudCheck: where it can be after its next request.
dataCrudProbe(c) ==
  IF c.pc = "preClean"
  THEN { LET d == request(c, "delete", r)
         IN goto(IF r.status \in {200, 204}
                 THEN push(d, Step("pre-cleanup", "pass", FALSE)) ELSE d,
                 "createTable") :
           r \in DeleteResponses \cup {Answer(404, FALSE)} }
  ELSE IF c.pc = "createTable"
  THEN { LET d == [push(request(c, "create", r),
                        stepFromResponse("create", r, {200, 201}, FALSE))
                     EXCEPT !.remote = Accepted(r)]
         IN IF r.error \/ r.status \notin {200, 201}
            THEN returnEarly([d EXCEPT !.fatal = TRUE], cannotProceed(c.fn))
            ELSE goto(d, "insert") :
           r \in {Answer(201, TRUE), Answer(500, FALSE), TransportFailure} }
  ELSE IF c.pc = "insert"
  THEN { LET st == stepFromResponse("insert", r, {200, 201}, TRUE)
             d == push(request(c, "insert", r), st)
         IN IF st.status = "pass"
            THEN goto([d EXCEPT !.id = TRUE], "list")
            ELSE goto([d EXCEPT !.fatal = TRUE], "finally") :
           r \in {Answer(201, TRUE), Answer(201, FALSE), Answer(500, FALSE)} }
  ELSE IF c.pc = "list"
  THEN { goto(push(request(c, "list", r), stepFromResponse("list", r, {200}, TRUE)),
              "get") : r \in ReadResponses }
  ELSE IF c.pc = "get"
  THEN { goto(push(request(c, "get", r), stepFromResponse("get", r, {200}, TRUE)),
              "patch") : r \in ReadResponses }
  ELSE IF c.pc = "patch"
  THEN { goto(push(request(c, "update", r), stepFromResponse("update", r, {200}, FALSE)),
              "verify") : r \in {Answer(200, TRUE), Answer(500, FALSE)} }
  ELSE IF c.pc = "verify"
  THEN { goto(push(request(c, "get", r), stepFromResponse("verify", r, {200}, TRUE)),
              "deleteRecord") : r \in ReadResponses }
  ELSE IF c.pc = "deleteRecord"
  THEN { goto(push(request(c, "deleteRecord", r),
                   stepFromResponse("delete record", r, {200, 204}, FALSE)),
              "finally") : r \in DeleteResponses }
  ELSE IF c.pc = "finally" THEN { goto(c, "drop") }
  ELSE IF c.pc = "drop"
  THEN { LET d == push(request(c, "delete", r),
                       stepFromResponse("cleanup", r, {200, 204, 404}, FALSE))
         IN finishProbe([d EXCEPT !.remote = @ /\ ~Accepted(r)]) :
           r \in DeleteResponses \cup {Answer(404, FALSE)} }
  ELSE {}

\* Responses of a service to its status probe and to a call that uses it.
StatusResponses == { Answer(200, TRUE), Answer(200, FALSE), Answer(503, FALSE),
                     Answer(500, FALSE), TransportFailure }
UseResponses == { Answer(200, TRUE), Answer(200, FALSE), Answer(402, FALSE),
                  Answer(503, FALSE), Answer(500, FALSE), TransportFailure }

notConfiguredNever(r) == FALSE

\* if (statusResp.status === 503): the service is not configured.
notConfigured(r) == r.status = 503

\* The statuses of the call after the status probe that a check takes for a
\* degraded service: 402 and 503 in aiChatCheck, 500 in aiVoiceCheck.
degraded(fn, r) ==
  IF fn = "aiChatCheck" THEN r.status \in {402, 503}
  ELSE IF fn = "aiVoiceCheck" THEN r.status = 500
  ELSE FALSE

\* The message of the early return after a failed status step.
statusFailed(fn) ==
  IF fn = "aiChatCheck" THEN "AI status check failed"
  ELSE IF fn = "aiImageCheck" THEN "Image status check failed"
  ELSE IF fn = "aiVoiceCheck" THEN "Voice status check failed"
  ELSE "Storage status check failed -- cannot proceed"

\* The first request of aiChatCheck, aiImageCheck, aiVoiceCheck and
\* storageCheck: the status probe of the service.
statusProbe(c) ==
  { IF notConfigured(r)
    THEN IF c.fn = "storageCheck"
         THEN returnLiteral(request(c, "status", r),
                [name |-> FnInfo(c.fn).name, status |-> "skip",
                 durationMs |-> elapsed(request(c, "status", r)),
                 steps |-> << Step("status", "skip", FALSE) >>, error |-> Null])
         ELSE LET d == push(request(c, "status", r), Step("status", "skip", FALSE))
              IN [d EXCEPT !.built = probeResult(d, Null), !.pc = "finally"]
    ELSE LET st == stepFromResponse("status", r, {200}, TRUE)
             d == push(request(c, "status", r), st)
         IN IF c.fn = "storageCheck"
            THEN IF r.status # 200 THEN returnEarly(d, statusFailed(c.fn))
                 ELSE goto(d, "preClean")
            ELSE IF st.status = "fail" THEN returnEarly(d, statusFailed(c.fn))
                 ELSE goto(d, IF c.fn = "aiChatCheck" THEN "chat"
                              ELSE IF c.fn = "aiVoiceCheck" THEN "voices"
                              ELSE "usage") :
    r \in StatusResponses }

\* aiChatCheck, aiImageCheck, aiVoiceCheck: where the check can be after its
\* next request.
aiProbe(c) ==
  IF c.pc = "status" THEN statusProbe(c)
  ELSE IF c.pc = "chat"
  THEN { LET d == request(c, "chat", r)
         IN IF degraded(c.fn, r)
            THEN LET e == push(d, Step("chat", "skip", FALSE))
                 IN [e EXCEPT !.built = probeResult(e, Null), !.pc = "finally"]
            ELSE goto(push(d, stepFromResponse("chat", r, {200}, TRUE)), "finally") :
           r \in UseResponses }
  ELSE IF c.pc = "voices"
  THEN { LET d == request(c, "list", r)
         IN goto(IF degraded(c.fn, r)
                 THEN push(d, Step("list", "skip", FALSE))
                 ELSE push(d, stepFromResponse("list", r, {200}, TRUE)),
                 "usage") :
           r \in UseResponses }
  ELSE IF c.pc = "usage"
  THEN { goto(push(request(c, "get", r), stepFromResponse("get usage", r, {200}, TRUE)),
              "finally") : r \in ReadResponses \cup {TransportFailure} }
  ELSE IF c.pc = "finally" THEN { finishProbe(c) }
  ELSE {}

\* storageCheck: where it can be after its next request.
storageProbe(c) ==
  IF c.pc = "status" THEN statusProbe(c)
  ELSE IF c.pc = "preClean"
  THEN { LET d == request(c, "delete", r)
         IN goto(IF r.status \in {200, 204}
                 THEN push(d, Step("pre-cleanup", "pass", FALSE)) ELSE d,
                 "create") :
           r \in DeleteResponses \cup {Answer(404, FALSE)} }
  ELSE IF c.pc = "create"
  THEN { LET d == [push(request(c, "create", r),
                        stepFromResponse("create", r, {200, 201}, FALSE))
                     EXCEPT !.id = r.status \in {200, 201},
                            !.remote = Accepted(r)]
         IN IF d.id THEN goto(d, "list")
            ELSE returnEarly(d, "Cannot proceed without bucket creation") :
           r \in CreateResponses }
  ELSE IF c.pc = "list"
  THEN { goto(push(request(c, "list", r), stepFromResponse("list", r, {200}, TRUE)),
              "usage") : r \in ReadResponses }
  ELSE IF c.pc = "usage"
  THEN { goto(push(request(c, "get", r), stepFromResponse("get usage", r, {200}, TRUE)),
              "finally") : r \in ReadResponses \cup {TransportFailure} }
  ELSE IF c.pc = "finally"
  THEN IF cleanupDue(c) THEN { goto(c, "cleanup") } ELSE { finishProbe(c) }
  ELSE IF c.pc = "cleanup"
  THEN { LET d == push(request(c, "delete", r),
                       stepFromResponse("cleanup", r, {200, 204, 404}, FALSE))
         IN finishProbe([d EXCEPT !.remote = @ /\ ~Accepted(r)]) :
           r \in DeleteResponses \cup {Answer(404, FALSE)} }
  ELSE {}

\* What the results of the nodes of a completed run say: whether the gate
\* went the way the test expects, whether the output on that side ran, and
\* whether the output on the other side was skipped.
NodeResults == [gate : BOOLEAN, executed : BOOLEAN, skipped : BOOLEAN]

\* The three steps flowGateCheck pushes from the node results of a run.
verifySteps(n) ==
  << Step("verify gate", IF n.gate THEN "pass" ELSE "fail", ~n.gate),
     Step("verify executed", IF n.executed THEN "pass" ELSE "fail", ~n.executed),
     Step("verify skipped", IF n.skipped THEN "pass" ELSE "warn", ~n.skipped) >>

\* flowGateCheck after a test: the second test, or the end of the try block.
afterTest(c) == goto(c, IF c.flowIds = 1 THEN "create" ELSE "finally")

\* runAndPoll after its poll loop: the poll step.
runPolled(c, finalStatus) ==
  IF finalStatus = "completed"
  THEN goto(push(c, Step("poll", "pass", FALSE)), "verify")
  ELSE afterTest(push(c, Step("poll", "fail", TRUE)))

\* flowGateCheck: where it can be after its next request.
flowGateProbe(c) ==
  IF c.pc = "preList"
  THEN { goto(request(c, "list", r),
              IF ~r.error /\ r.valid THEN "preDelete" ELSE "create") :
           r \in {Answer(200, TRUE), Answer(200, FALSE), TransportFailure} }
  ELSE IF c.pc = "preDelete"
  THEN { goto(request(c, "delete", r), "create") : r \in DeleteResponses }
  ELSE IF c.pc = "create"
  THEN { LET st == stepFromResponse("create", r, {201}, TRUE)
             d == [push(request(c, "create", r), st) EXCEPT !.remote = @ \/ Accepted(r)]
         IN IF st.status = "pass" THEN goto(d, "canvas")
            ELSE returnEarly(d, IF c.flowIds = 0 THEN "Cannot create pass-path flow"
                                ELSE "Cannot create fail-path flow") :
           r \in {Answer(201, TRUE), Answer(201, FALSE), Answer(500, FALSE)} }
  ELSE IF c.pc = "canvas"
  THEN { goto([push(request(c, "update", r), stepFromResponse("canvas", r, {200}, FALSE))
                 EXCEPT !.flowIds = @ + 1],
              "run") : r \in {Answer(200, TRUE), Answer(500, FALSE)} }
  ELSE IF c.pc = "run"
  THEN { LET st == stepFromResponse("run", r, {200, 201, 202}, TRUE)
             d == push(request(c, "run", r), st)
         IN IF st.status = "pass" THEN goto(d, "pollRun") ELSE afterTest(d) :
           r \in {Answer(202, TRUE), Answer(202, FALSE), Answer(500, FALSE)} }
  ELSE IF c.pc = "pollRun"
  THEN { LET d == polled(c, "pollRun", Answer(200, TRUE), res)
         IN IF res = "running" /\ c.attempt + 1 < MaxProbePolls
            THEN [d EXCEPT !.attempt = @ + 1]
            ELSE runPolled(d, res) :
           res \in {"running", "completed", "failed"} }
       \cup { runPolled(polled(c, "pollRun", TransportFailure, PollError), "queued") }
  ELSE IF c.pc = "verify"
  THEN { afterTest(c) }
       \cup { LET v == verifySteps(n)
              IN afterTest(push(push(push(c, v[1]), v[2]), v[3])) : n \in NodeResults }
  ELSE IF c.pc = "finally"
  THEN IF c.flowIds > 0 THEN { goto(c, "cleanup") } ELSE { finishProbe(c) }
  ELSE IF c.pc = "cleanup"
  THEN { LET d == request(c, "delete", r)
         IN IF c.attempt + 1 = c.flowIds
            THEN finishProbe([d EXCEPT !.remote =
                   \/ \E i \in 1..Len(d.log) :
                        d.log[i].op = "create" /\ d.log[i].resp = Answer(201, FALSE)
                   \/ \E i \in (Len(d.log) - c.flowIds + 1)..Len(d.log) :
                        ~Accepted(d.log[i].resp)])
            ELSE [d EXCEPT !.attempt = @ + 1] :
           r \in {Answer(204, FALSE), TransportFailure} }
  ELSE {}

\* Bodies of a response to GET /health: text that is not JSON, the JSON
\* value null, or an object with a status field and a db field, either of
\* which can be absent.
Absent == "(absent)"
NotJson == [json |-> FALSE, object |-> FALSE, status |-> Absent, db |-> Absent]
JsonNull == [json |-> TRUE, object |-> FALSE, status |-> Absent, db |-> Absent]
HealthObjects ==
  { [json |-> TRUE, object |-> TRUE, status |-> st, db |-> db] :
      st \in {"ok", "degraded", Absent}, db \in {Absent, "connected", "down"} }
HealthBodies == {NotJson, JsonNull} \cup HealthObjects

HealthResponses ==
  { [status |-> st, error |-> FALSE, valid |-> b.object, body |-> b] :
      st \in {200, 503}, b \in HealthBodies }
  \cup { [status |-> st, error |-> TRUE, valid |-> FALSE, body |-> NotJson] : st \in {0, 200} }

\* resp.data: the parsed body, null when the body is not JSON.
healthData(r) == IF r.body.json /\ r.body.object THEN r.body ELSE Null

dbWrongNever(data) == FALSE

\* resp.data.db !== undefined && resp.data.db !== "connected"
dbWrong(data) == data.db # Absent /\ data.db # "connected"

\* The errors array of healthCheck: one entry per field that is not as
\* expected, joined with "; " into the error of the step.
healthErrors(data) ==
  (IF data.status # "ok"
   THEN << [field |-> "status", got |-> data.status, expected |-> "ok"] >> ELSE <<>>)
  \o (IF dbWrong(data)
      THEN << [field |-> "db", got |-> data.db, expected |-> "connected"] >> ELSE <<>>)

\* The step healthCheck makes of the response.
healthStep(r) ==
  LET fail(text) == [name |-> "GET /health", status |-> "fail", error |-> TRUE, text |-> text]
  IN IF r.error
     THEN fail(<< [field |-> "error", got |-> "transport", expected |-> Absent] >>)
     ELSE IF r.status # 200
     THEN fail(<< [field |-> "http status", got |-> "other", expected |-> "200"] >>)
     ELSE IF healthData(r) = Null
     THEN fail(<< [field |-> "body", got |-> "not valid JSON", expected |-> "JSON"] >>)
     ELSE IF Len(healthErrors(healthData(r))) > 0 THEN fail(healthErrors(healthData(r)))
     ELSE [name |-> "GET /health", status |-> "pass", error |-> FALSE, text |-> <<>>]

\* healthCheck: one request, one step, the result.
healthProbe(c) ==
  IF c.pc = "health"
  THEN { finishProbe(push(request(c, "get", r), healthStep(r))) : r \in HealthResponses }
  ELSE {}

\* ------------------------------------------------ the response adapter
\* rawText.slice(0, 300): the longest detail a step takes from a body.
DETAIL_LIMIT == 300

\* The RequestResults handed to stepFromResponse: a status, a transport
\* error or none, and the length of the raw body.
AdapterErrors == { Null, [kind |-> "transport", text |-> "Request timed out after 15000ms"],
                   [kind |-> "transport", text |-> "Unable to connect"] }
AdapterResults ==
  [status : {0, 200, 201, 404, 500}, error : AdapterErrors,
   rawLength : {0, DETAIL_LIMIT, DETAIL_LIMIT + 1}]

\* The expectedStatus argument: one status or an array of them.
ExpectedArgs == { [isArray |-> FALSE, one |-> 200, many |-> {}],
                  [isArray |-> TRUE, one |-> 0, many |-> {200, 201}],
                  [isArray |-> TRUE, one |-> 0, many |-> {204, 404}] }

\* Array.isArray(expectedStatus) ? expectedStatus : [expectedStatus]
expectedOf(arg) == IF arg.isArray THEN arg.many ELSE {arg.one}

\* The validate argument: absent, or a function that returns null or a
\* message for the data of this response.
Validators == { [given |-> FALSE, returns |-> Null],
                [given |-> TRUE, returns |-> Null],
                [given |-> TRUE, returns |-> [kind |-> "validation", text |-> "Response missing 'id' field"]] }

stepFromResponseStatusFirst(res, arg, validate) ==
  LET fail(e, d) == [status |-> "fail", error |-> e, detail |-> d, validated |-> FALSE]
  IN IF res.status \notin expectedOf(arg)
     THEN fail([kind |-> "status", expected |-> expectedOf(arg), got |-> res.status],
               [length |-> IF res.rawLength < DETAIL_LIMIT THEN res.rawLength ELSE DETAIL_LIMIT])
     ELSE IF res.error # Null THEN fail(res.error, Null)
     ELSE IF validate.given /\ validate.returns # Null
     THEN [status |-> "fail", error |-> validate.returns, detail |-> Null, validated |-> TRUE]
     ELSE [status |-> "pass", error |-> Null, detail |-> Null, validated |-> validate.given]

\* stepFromResponse(name, res, expectedStatus, validate?) with the texts it
\* writes: the step, and whether validate was called on the way.
stepFromResponseFull(res, arg, validate) ==
  LET fail(e, d) == [status |-> "fail", error |-> e, detail |-> d, validated |-> FALSE]
  IN IF res.error # Null THEN fail(res.error, Null)
     ELSE IF res.status \notin expectedOf(arg)
     THEN fail([kind |-> "status", expected |-> expectedOf(arg), got |-> res.status],
               [length |-> IF res.rawLength < DETAIL_LIMIT THEN res.rawLength ELSE DETAIL_LIMIT])
     ELSE IF validate.given /\ validate.returns # Null
     THEN [status |-> "fail", error |-> validate.returns, detail |-> Null, validated |-> TRUE]
     ELSE [status |-> "pass", error |-> Null, detail |-> Null, validated |-> validate.given]

AdapterFrame ==
  UNCHANGED << lastReport, isRunning, runningStartedAt, now, pc, req, run,
               inFlight, calls, settled, resp, faulty, steps, built, chk, http, poll,
               probe >>

\* stepFromResponse is called and returns.
AdapterReturns ==
  /\ adapter.pc = "called"
  /\ adapter' = [adapter EXCEPT !.pc = "returned",
                   !.step = stepFromResponseFull(adapter.resp, adapter.expected,
                                                 adapter.validate)]
  /\ AdapterFrame

InitStep ==
  /\ InitBase
  /\ faulty = {}
  /\ steps = <<>>
  /\ chk = Null
  /\ http = Null
  /\ poll = Null
  /\ probe = Null
  /\ adapter \in [pc : {"called"}, resp : AdapterResults, expected : ExpectedArgs,
                  validate : Validators, step : {Null}]

NextStep == AdapterReturns

SpecStep == InitStep /\ [][NextStep]_vars

\* The positions at which the handling of a response can throw (a list with
\* a null element makes the loop over it throw a TypeError), with the
\* request made there.
throwingAt(c) ==
  IF c.fn = "tokensCheck" /\ c.pc \in {"list", "verify"} THEN {"list"}
  ELSE IF c.fn \in {"webhooksCheck", "schedulesCheck", "functionsCheck", "documentsCheck"}
          /\ c.pc = "preList" THEN {"list"}
  ELSE IF c.fn = "appLifecycleCheck" /\ c.pc = "list" THEN {"list"}
  ELSE IF c.fn = "secretsCheck" /\ c.pc = "list" THEN {"list"}
  ELSE IF c.fn = "dataCrudCheck" /\ c.pc = "list" THEN {"list"}
  ELSE IF c.fn = "storageCheck" /\ c.pc = "list" THEN {"list"}
  ELSE IF c.fn = "flowGateCheck" /\ c.pc = "preList" THEN {"list"}
  ELSE {}

\* catch (err) { steps.push({ name: "unexpected error", status: "fail", ... }) }
\* and on to the rest of the catch block or to the finally block.
caught(c) ==
  goto([push(c, Step("unexpected error", "fail", TRUE))
          EXCEPT !.fatal = c.fn = "dataCrudCheck"],
       IF c.fn = "tokensCheck" THEN "catch" ELSE "finally")

\* The check functions followed request by request, with their first
\* position and whether they need an identifier from the environment.
ProbeFns ==
  { [fn |-> "appLifecycleCheck", at |-> "list", needs |-> FALSE],
    [fn |-> "usageCheck", at |-> "entry", needs |-> TRUE],
    [fn |-> "webhooksCheck", at |-> "entry", needs |-> TRUE],
    [fn |-> "schedulesCheck", at |-> "entry", needs |-> TRUE],
    [fn |-> "functionsCheck", at |-> "entry", needs |-> TRUE],
    [fn |-> "documentsCheck", at |-> "preList", needs |-> FALSE],
    [fn |-> "tokensCheck", at |-> "create", needs |-> FALSE],
    [fn |-> "secretsCheck", at |-> "preClean", needs |-> FALSE],
    [fn |-> "togglesCheck", at |-> "preClean", needs |-> FALSE],
    [fn |-> "dataCrudCheck", at |-> "preClean", needs |-> FALSE],
    [fn |-> "aiChatCheck", at |-> "status", needs |-> FALSE],
    [fn |-> "aiImageCheck", at |-> "status", needs |-> FALSE],
    [fn |-> "aiVoiceCheck", at |-> "status", needs |-> FALSE],
    [fn |-> "storageCheck", at |-> "status", needs |-> FALSE],
    [fn |-> "flowGateCheck", at |-> "preList", needs |-> FALSE],
    [fn |-> "healthCheck", at |-> "health", needs |-> FALSE] }

\* Where check function c.fn can be after its next request.
probeMoves(c) ==
  IF c.fn = "appLifecycleCheck" THEN appLifecycleProbe(c)
  ELSE IF c.fn = "usageCheck" THEN usageProbe(c)
  ELSE IF c.fn \in {"webhooksCheck", "schedulesCheck", "functionsCheck", "documentsCheck"}
  THEN crudProbe(c)
  ELSE IF c.fn = "tokensCheck" THEN tokensProbe(c)
  ELSE IF c.fn \in {"secretsCheck", "togglesCheck"} THEN namedProbe(c)
  ELSE IF c.fn = "dataCrudCheck" THEN dataCrudProbe(c)
  ELSE IF c.fn \in {"aiChatCheck", "aiImageCheck", "aiVoiceCheck"} THEN aiProbe(c)
  ELSE IF c.fn = "storageCheck" THEN storageProbe(c)
  ELSE IF c.fn = "flowGateCheck" THEN flowGateProbe(c)
  ELSE IF c.fn = "healthCheck" THEN healthProbe(c)
  ELSE {}

ProbeFrame ==
  UNCHANGED << lastReport, isRunning, runningStartedAt, now, pc, req, run,
               inFlight, calls, settled, resp, faulty, steps, built, chk, http, poll, adapter >>

\* The check function issues its next request and takes the response in.
ProbeStep ==
  /\ probe.pc \notin {"finally", "catch", "returned"}
  /\ \E c \in probeMoves(probe) : probe' = c
  /\ ProbeFrame

\* The check function issues a request and the handling of the response
\* throws: the catch block takes over.
ProbeThrows ==
  /\ \E op \in throwingAt(probe) : probe' = caught(request(probe, op, Answer(200, FALSE)))
  /\ ProbeFrame

\* The try block is left: the catch block goes on, the finally block
\* starts, or the function returns.
ProbeLeavesTry ==
  /\ probe.pc \in {"finally", "catch"}
  /\ \E c \in probeMoves(probe) : probe' = c
  /\ ProbeFrame

InitProbe ==
  /\ InitBase
  /\ faulty = {}
  /\ steps = <<>>
  /\ chk = Null
  /\ http = Null
  /\ poll = Null
  /\ adapter = Null
  /\ probe \in { startProbe(f.fn, f.at, ident) :
                   f \in ProbeFns, ident \in BOOLEAN } \ 
               { startProbe(f.fn, f.at, FALSE) : f \in { g \in ProbeFns : ~g.needs } }

NextProbe == ProbeStep \/ ProbeThrows \/ ProbeLeavesTry

SpecProbe == InitProbe /\ [][NextProbe]_vars

\* ================================================================ claims
\* The paths of the two entry points that take the lock.
RunPaths == {"/canary", "/canary/:name"}

\* Request r is handled in this step and asks for a run.
RunRequest(r) ==
  pc[r] = "new" /\ pc'[r] # "new" /\ req'[r].path \in RunPaths

\* The requests whose run is executing checks.
Executing == { r \in Reqs : pc[r] = "run" /\ run[r].via = "http" }

\* The age of the lock.
LockAge == now - runningStartedAt

\* ------------------------------------------------------------------- C1
\* C1: at no time are two runs (run-all or run-one, in any combination)
\* executing checks simultaneously.
C1_SingleFlight == Cardinality(Executing) <= 1

\* ------------------------------------------------------------------- C2
\* C2: while the lock is held and its age is below the staleness threshold,
\* a run request is answered 429 at once; the lock fields, lastReport, the
\* runs, the checks invoked and the platform requests are left as they were.
C2_Step ==
  \A r \in Reqs :
    (RunRequest(r) /\ isRunning /\ LockAge < MAX_LOCK_DURATION_MS)
      => /\ pc'[r] = "done"
         /\ resp'[r] = [status |-> 429, body |-> BusyBody]
         /\ UNCHANGED << isRunning, runningStartedAt, lastReport, run,
                         inFlight, calls, settled >>

C2_BusyRejected == [][C2_Step]_vars

\* A request was rejected at a lock age between zero and the threshold while
\* an earlier run is still executing checks.
C2_Witness ==
  \E r \in Reqs, q \in Reqs :
    /\ q # r
    /\ req[r].path \in RunPaths /\ resp[r].status = 429
    /\ pc[q] = "run" /\ isRunning /\ runningStartedAt = run[q].start
    /\ LockAge > 0 /\ LockAge < MAX_LOCK_DURATION_MS
    /\ \A x \in Reqs \ {q, r} : pc[x] = "new"

\* ------------------------------------------------------------------- C3
\* C3 as stated: an acquire made while the lock is held and its age is
\* greater than or equal to 120000 ms succeeds and resets runningStartedAt
\* to now, the age of exactly 120000 ms included.
C3_StepAsStated ==
  \A r \in Reqs :
    (RunRequest(r) /\ isRunning /\ LockAge >= MAX_LOCK_DURATION_MS)
      => /\ resp'[r].status # 429
         /\ runningStartedAt' = now

C3_AsStated == [][C3_StepAsStated]_vars

\* C3 amended: an acquire made while the lock is held succeeds and resets
\* runningStartedAt to now when the age is strictly greater than 120000 ms;
\* at an age of exactly 120000 ms it fails and leaves both lock fields alone.
C3_Step ==
  \A r \in Reqs :
    /\ (RunRequest(r) /\ isRunning /\ LockAge > MAX_LOCK_DURATION_MS)
         => /\ resp'[r].status # 429
            /\ runningStartedAt' = now
    /\ (RunRequest(r) /\ isRunning /\ LockAge = MAX_LOCK_DURATION_MS)
         => /\ resp'[r].status = 429
            /\ UNCHANGED << isRunning, runningStartedAt >>

C3_StaleAcquire == [][C3_Step]_vars

\* The second request was rejected; the third took over a lock of age above
\* the threshold from the first, whose run is still going.
C3_Witness ==
  /\ pc[1] = "run" /\ pc[2] = "done" /\ pc[3] = "run"
  /\ resp[2].status = 429
  /\ run[1].start + MAX_LOCK_DURATION_MS < run[3].start
  /\ isRunning /\ runningStartedAt = run[3].start

\* ------------------------------------------------------------------- C4
\* The /canary handler admits request r in this step.
Admitted(r) ==
  /\ FetchCanary(r, [path |-> "/canary", name |-> ""])
  /\ pc'[r] = "run"
  /\ isRunning'
  /\ runningStartedAt' = now

\* C4: a run that hangs cannot block later runs for good: in every state
\* where the lock is held by a run that has not released it and more than
\* 120000 ms have passed since runningStartedAt, a run request that arrives
\* is admitted, with the flag set again and runningStartedAt reset to now.
C4_HungLockRecoverable ==
  \A q \in Reqs :
    (pc[q] = "run" /\ run[q].via = "http" /\ isRunning
       /\ runningStartedAt = run[q].start
       /\ LockAge > MAX_LOCK_DURATION_MS)
      => \A r \in Reqs : Arrives(r) => ENABLED Admitted(r)

\* The first run has not got past its first check, and the second request,
\* arriving when the lock was older than the threshold, runs beside it and
\* has got further.
C4_Witness ==
  /\ pc[1] = "run" /\ run[1].idx = 1 /\ run[1].kind = "all"
  /\ pc[2] = "run" /\ run[2].idx > 1 /\ req[2].path = "/canary"
  /\ run[2].start > run[1].start + MAX_LOCK_DURATION_MS
  /\ pc[3] = "new"

\* ------------------------------------------------------------------- C5
\* Request r, which had acquired the lock, is answered in this step.
RunEnds(r) ==
  /\ pc[r] # "done" /\ pc'[r] = "done"
  /\ req'[r].path \in RunPaths
  /\ resp'[r].status # 429

\* C5: every request that acquired the lock leaves isRunning false when its
\* run ends, whether it answers with a report, with a single result or with
\* 404 for an unregistered name; and a run request that finds isRunning
\* false is admitted.
C5_Step ==
  \A r \in Reqs :
    /\ RunEnds(r) => ~isRunning'
    /\ (RunRequest(r) /\ ~isRunning) => resp'[r].status # 429

ThrownText(err) == IF err.isError THEN err.message ELSE err.value

\* The loop of a run-all resumes in this step after a check that threw.
ResumesAfterThrow(r) ==
  /\ pc[r] = "run" /\ run[r].kind = "all"
  /\ settled[r].kind = "throw"
  /\ settled'[r] = Pending

\* The loop goes on after position i: the next registered check is invoked,
\* or, after the last one, the report with a result for every registered
\* check is returned.
GoesOn(r) ==
  LET i == run[r].idx
      n == Len(RegistryOf(run[r].runner))
  IN /\ Len(run'[r].checks) = i
     /\ IF i < n
        THEN pc'[r] = "run" /\ run'[r].idx = i + 1 /\ (i + 1) \in inFlight'[r]
        ELSE pc'[r] = "done" /\ resp'[r].body.checks = run'[r].checks

\* C6 as stated: when a check throws in a run-all, the result recorded for it
\* has status fail, the registered name, and an error equal to the exception
\* message; the checks registered after it are still invoked and the report
\* is produced.
C6_StepAsStated ==
  \A r \in Reqs :
    ResumesAfterThrow(r)
      => LET i == run[r].idx
             entry == RegistryOf(run[r].runner)[i]
             result == run'[r].checks[i]
         IN /\ GoesOn(r)
            /\ result.name = entry.name
            /\ result.status = "fail"
            /\ result.error = [prefix |-> "", text |-> ThrownText(settled[r])]

C6_AsStated == [][C6_StepAsStated]_vars

\* C6 amended: when a check throws in a run-all, the result recorded for it
\* has status fail, the registered name, no steps, and an error made of
\* "Unhandled: " followed by the exception message (String(err) when what
\* was thrown is not an Error); the checks registered after it are still
\* invoked and the report is produced.
C6_Step ==
  \A r \in Reqs :
    ResumesAfterThrow(r)
      => LET i == run[r].idx
             entry == RegistryOf(run[r].runner)[i]
             result == run'[r].checks[i]
         IN /\ GoesOn(r)
            /\ result.name = entry.name
            /\ result.status = "fail"
            /\ result.steps = <<>>
            /\ result.error =
                 [prefix |-> "Unhandled: ", text |-> ThrownText(settled[r])]

C6_ThrowBecomesFail == [][C6_Step]_vars

\* A run-all has returned its report; in it a check that threw an Error has
\* its synthetic result and the check registered after it has a result of
\* its own.
C6_Witness ==
  \E r \in Reqs :
    /\ pc[r] = "done" /\ run[r].kind = "all"
    /\ \E i \in 1..(Len(resp[r].body.checks) - 1) :
         /\ resp[r].body.checks[i].status = "fail"
         /\ resp[r].body.checks[i].error = [prefix |-> "Unhandled: ", text |-> "boom"]
         /\ resp[r].body.checks[i + 1].steps # <<>>

\* ------------------------------------------------------------------- C7
\* The names of the registry of runner k, in registration order.
RegisteredNames(k) ==
  [i \in 1..Len(RegistryOf(k)) |-> RegistryOf(k)[i].name]

\* C7: whatever the checks return or throw, the report of a run-all holds
\* exactly one result per registered check, in registration order, and
\* getCheckNames returns the registered names in that order.
C7_OnePerCheck ==
  /\ \A k \in Runners : getCheckNames(k) = RegisteredNames(k)
  /\ \A r \in Reqs :
       (pc[r] = "done" /\ run[r].kind = "all")
         => LET cs == resp[r].body.checks
            IN /\ Len(cs) = Len(RegistryOf(run[r].runner))
               /\ [i \in 1..Len(cs) |-> cs[i].name] = getCheckNames(run[r].runner)

\* A report was returned in which one check threw, another returned a
\* failing result and a third one passed.
C7_Witness ==
  \E r \in Reqs :
    /\ pc[r] = "done" /\ run[r].kind = "all"
    /\ \E i, j, k \in 1..Len(resp[r].body.checks) :
         /\ resp[r].body.checks[i].steps = <<>>
         /\ resp[r].body.checks[j].status = "fail"
         /\ resp[r].body.checks[j].steps # <<>>
         /\ resp[r].body.checks[k].status = "pass"

\* ------------------------------------------------------------------- C8
\* C8: in a run-all the checks run one after the other: the only check in
\* progress, and the only one that has sent requests to the platform, is
\* the one right after those whose results are already recorded.
C8_Sequential ==
  \A r \in Reqs :
    (pc[r] = "run" /\ run[r].kind = "all")
      => /\ Cardinality(inFlight[r]) <= 1
         /\ inFlight[r] \subseteq {Len(run[r].checks) + 1}
         /\ \A i \in DOMAIN calls[r] :
              calls[r][i] > 0 => i = Len(run[r].checks) + 1

\* The third check of a run-all has sent a request to the platform after the
\* first two have had their results recorded.
C8_Witness ==
  \E r \in Reqs :
    /\ pc[r] = "run" /\ run[r].kind = "all"
    /\ Len(run[r].checks) = 2
    /\ inFlight[r] = {3}
    /\ calls[r][3] > 0

\* ------------------------------------------------------------------- C9
\* No check of runner k is registered under name n.
Unregistered(k, n) ==
  \A i \in 1..Len(RegistryOf(k)) : RegistryOf(k)[i].name # n

\* Request or call r is answered in this step without any check having been
\* invoked or any platform request made for it.
AnsweredWithoutRun(r) ==
  /\ pc'[r] = "done"
  /\ run'[r] = NoRun
  /\ inFlight'[r] = {} /\ calls'[r] = NoCalls
  /\ UNCHANGED << settled, lastReport >>

\* C9: a run-one for an unregistered name returns null, answered as 404 on
\* /canary/:name, without invoking a check or making a request; a run-one
\* whose check throws returns a fail result named after the check.
C9_Step ==
  \A r \in Reqs :
    /\ \A k \in Runners :
         (pc[r] = "new" /\ req'[r].path = CallOnePath(k)
            /\ Unregistered(k, req'[r].name))
           => AnsweredWithoutRun(r) /\ resp'[r].body = Null
    /\ (pc[r] = "new" /\ req'[r].path = "/canary/:name" /\ ~isRunning
          /\ Unregistered("canary", req'[r].name))
         => /\ AnsweredWithoutRun(r)
            /\ resp'[r].status = 404
            /\ resp'[r].body.checkName = req'[r].name
    /\ (pc[r] = "run" /\ run[r].kind = "one" /\ settled[r].kind = "throw"
          /\ settled'[r] = Pending)
         => /\ pc'[r] = "done"
            /\ resp'[r].status = (IF run[r].via = "http" THEN 200 ELSE 0)
            /\ resp'[r].body.name = RegistryOf(run[r].runner)[run[r].idx].name
            /\ resp'[r].body.status = "fail"

C9_RunOne == [][C9_Step]_vars

\* /canary/no-such-check was answered 404 with no check invoked, and then
\* /canary/health, whose check threw, was answered with a fail result named
\* health.
C9_Witness ==
  /\ req[1] = [path |-> "/canary/:name", name |-> "no-such-check"]
  /\ pc[1] = "done" /\ resp[1].status = 404 /\ run[1] = NoRun
  /\ req[2] = [path |-> "/canary/:name", name |-> "health"]
  /\ pc[2] = "done" /\ resp[2].status = 200
  /\ resp[2].body.name = "health"
  /\ resp[2].body.status = "fail"
  /\ resp[2].body.steps = <<>>

\* ------------------------------------------------------------------ C10
\* The lattice of the specification over a sequence of step statuses.
Lattice(S) ==
  LET has(st) == \E i \in 1..Len(S) : S[i] = st
  IN IF has("fail") THEN "fail"
     ELSE IF ~has("pass") /\ has("skip") THEN "skip"
     ELSE IF has("pass") /\ has("skip") THEN "warn"
     ELSE "pass"

\* C10: for every sequence of step statuses, the buildResult of every check
\* that has one returns the lattice value.
C10_AggregateIsLattice ==
  (built # Null /\ FnInfo(built.fn).agg # "health")
    => built.result.status = Lattice(steps)

\* ------------------------------------------------------------------ C11
\* C11: the result a check function returns, on whichever path it returns
\* (to the end, early on a failed precondition, on a skipped service, after
\* a caught exception, with cleanup steps pushed after the result was built),
\* has the status the lattice gives the steps it carries.
C11_ResultIsLattice ==
  chk.pc = "returned" => chk.result.status = Lattice(chk.result.steps)

\* dataCrudCheck built its result on a failed table creation and the finally
\* block pushed the outcome of the cleanup to its steps afterwards.
C11_Witness ==
  /\ chk.fn = "dataCrudCheck" /\ chk.pc = "returned"
  /\ chk.built # Null
  /\ Len(chk.result.steps) > Len(chk.built.steps)
  /\ chk.result.status = "fail"

\* ------------------------------------------------------------------ C12
\* The reports that run-alls have returned.
ReportsReturned ==
  { resp[r].body : r \in { q \in Reqs : pc[q] = "done" /\ run[q].kind = "all" } }

\* C12: the summary of a report over N checks has the counters pass, fail,
\* warn and skip, and they add up to total, which is N.
C12_CountersSumToTotal ==
  \A rep \in ReportsReturned :
    /\ {"pass", "fail", "warn", "skip", "total"} \subseteq DOMAIN rep.summary
    /\ rep.summary.pass + rep.summary.fail + rep.summary.warn + rep.summary.skip
         = rep.summary.total
    /\ rep.summary.total = Len(rep.checks)

\* ------------------------------------------------------------------ C13
\* The number of results of a report with status s.
CountOf(rep, s) ==
  Cardinality({ i \in 1..Len(rep.checks) : rep.checks[i].status = s })

\* The counter the summary of a report keeps for status s, 0 if it keeps none.
CounterOf(rep, s) ==
  IF s \in DOMAIN rep.summary THEN rep.summary[s] ELSE 0

C14_NeverRaises ==
  /\ http.phase # "raised"
  /\ http.phase = "done" =>
       /\ http.result # Null
       /\ DOMAIN http.result = {"status", "data", "rawText", "durationMs", "error"}

\* The connection broke while the body of a received response was read, and
\* the call returned a value carrying the error.
C14_Witness ==
  /\ http.phase = "done"
  /\ ~http.fired
  /\ http.result.status = 503
  /\ http.result.error = [text |-> "socket hang up", ms |-> 0]

\* C15: when the timer of a request fires, before the response or while its
\* body is read, the call returns a result whose error names the timeout and
\* whose status is 0.
C15_TimeoutLeavesStatusZero ==
  http.fired =>
    /\ http.phase = "done"
    /\ http.result.error = [text |-> "Request timed out after ", ms |-> http.timer]
    /\ http.result.status = 0

\* C16: for a response received in full the result has no error, rawText is
\* the payload received, and data is the parsed payload when it parses and
\* null when it does not; an error is present only when the transport failed.
C16_ReceivedResponse ==
  http.received =>
    /\ http.phase = "done"
    /\ http.result.error = Null
    /\ http.result.rawText = http.payload
    /\ http.result.status \in Statuses
    /\ http.result.data = IF http.payload = "{\"ok\":true}" THEN [ok |-> TRUE] ELSE Null

\* A 200 response whose body is not JSON was received and returned.
C16_Witness ==
  /\ http.phase = "done"
  /\ http.received
  /\ http.result.status = 200
  /\ http.payload = "<html>Bad Gateway</html>"
  /\ http.result.data = Null

\* C17: a request issued with options.timeoutMs = T is aborted after T ms,
\* not after the client's default, and its timeout message names T.
C17_OverrideApplies ==
  (http.timeoutOpt # 0 /\ http.fired) =>
    /\ http.elapsed >= http.timeoutOpt
    /\ http.result.error = [text |-> "Request timed out after ", ms |-> http.timeoutOpt]

\* C18: a request sent carries the credential of its auth mode and no other:
\* api-key the Authorization bearer header and no x-api-key, admin-key the
\* x-api-key header and no Authorization, none neither, whatever headers the
\* caller passes.
C18_ExactlyOneCredential ==
  http.phase \in {"fetching", "reading", "done"} =>
    LET sent == DOMAIN http.headers
    IN /\ http.auth = "api-key" =>
            /\ "Authorization" \in sent
            /\ http.headers["Authorization"] = "Bearer apiKey"
            /\ "x-api-key" \notin sent
       /\ http.auth = "admin-key" =>
            /\ "x-api-key" \in sent
            /\ http.headers["x-api-key"] = "adminKey"
            /\ "Authorization" \notin sent
       /\ http.auth = "none" =>
            /\ "Authorization" \notin sent
            /\ "x-api-key" \notin sent

\* The loop has returned having seen a terminal result of the operation.
PollReached == poll.calls >= poll.terminalAt

\* C19 as stated: with a budget of at least k times the interval, the loop
\* stops at the k-th call, the first to give a terminal result, with
\* attempts = k.
C19_AsStated ==
  (poll.pc = "done" /\ poll.budget >= poll.terminalAt * poll.interval) =>
    /\ poll.calls = poll.terminalAt
    /\ poll.loop = "deploy" => poll.pollCount = poll.terminalAt

\* C19: with a budget of at least k times the interval, and the first k - 1
\* rounds, each a sleep and a call, over before the budget has run out, the
\* loop stops at the k-th call: it reports the terminal result, counts k
\* attempts and calls the operation no further.
C19_StopsAtTerminal ==
  ( /\ poll.pc = "done"
    /\ poll.budget >= poll.terminalAt * poll.interval
    /\ (poll.terminalAt - 1) * (poll.interval + poll.latency) < poll.budget ) =>
    /\ poll.calls = poll.terminalAt
    /\ poll.loop = "deploy" => poll.pollCount = poll.terminalAt
    /\ poll.loop = "deploy" => poll.status \in Terminal("deploy")

\* A deployment that failed on the 23rd poll, with calls that take time: the
\* loop stopped there.
C19_Witness ==
  /\ poll.pc = "done"
  /\ poll.loop = "deploy"
  /\ poll.latency = 250
  /\ poll.terminalAt = 23
  /\ poll.pollCount = 23
  /\ poll.status = "failed"

\* C20: with a budget below k times the interval the loop returns without a
\* terminal result, and its attempts are those that fit within the budget,
\* that is the calls made before the budget has run out, fewer than k.
C20_AttemptsFitBudget ==
  (poll.pc = "done" /\ poll.loop = "deploy"
     /\ poll.budget < poll.terminalAt * poll.interval) =>
    /\ ~PollReached
    /\ poll.pollCount < poll.terminalAt
    /\ poll.lastCallAt <= poll.budget

StoppedByError == poll.pc = "done" /\ poll.last = PollError /\ budgetLeft(poll)

\* C22 as stated: in every poll loop a failed poll does not stop the loop;
\* polling goes on until a terminal result or the end of the budget.
C22_AsStated == ~StoppedByError

\* C22: in the deploy poll and the invocation poll a failed poll does not
\* stop the loop: it counts as an attempt and polling goes on until a
\* terminal result or the end of the budget. runAndPoll and the poll loop of
\* flowExecutionCheck treat a failed poll as terminal and stop at it.
C22_ErrorHandling ==
  /\ poll.loop \in {"deploy", "invocation"} => ~StoppedByError
  /\ (poll.loop \in {"deploy", "invocation"} /\ poll.last = PollError
        /\ poll.pc \in {"test", "done"}) =>
       poll.pollCount = poll.calls
  /\ (poll.loop \in {"runAndPoll", "flowExecution"} /\ poll.last = PollError) =>
       poll.pc \in {"done", "stepped"}

\* A deploy poll failed, polling went on, and a later poll saw the
\* deployment succeed.
C22_Witness ==
  /\ poll.loop = "deploy"
  /\ poll.pc = "done"
  /\ poll.sawError
  /\ poll.status = "success"
  /\ poll.pollCount = 3

\* The request was answered with a failure: a transport error or an error
\* status.
Failed(r) == r.error \/ r.status >= 400

\* The requests polling phases make, and the states in which a poll finds
\* the thing polled still pending.
PollOps == {"pollDeploy", "pollSubdomain"}
PendingStates == {"building", "queued", "running", "unreachable"}

\* C23: no request is reissued after a failed outcome except inside a poll
\* loop, and a poll loop polls again only while the state it saw is pending.
C23_NoRetry ==
  \A i \in 1..(Len(probe.log) - 1) :
    probe.log[i + 1].op = probe.log[i].op =>
      IF probe.log[i].op \in PollOps
      THEN probe.log[i].state \in PendingStates
      ELSE ~Failed(probe.log[i].resp)

\* C24: a polling phase adds exactly one step to the check's steps, whatever
\* the number of polls and their outcomes, and that step is pass exactly
\* when the last state seen is the success state.
C24_OnePollStep ==
  poll.pc = "stepped" =>
    /\ Len(poll.steps) = 1
    /\ poll.steps[1].polls = poll.pollCount
    /\ poll.steps[1].status = "pass" <=> poll.status \in {"success", "completed"}

\* The checks that take an identifier from the environment.
NeedIdentifier == { f.fn : f \in { g \in ProbeFns : g.needs } }

\* C25: a check whose identifier is not set in the environment returns at
\* once a result of status skip with exactly one step, a skip, and issues no
\* request.
C25_SkipsWhenUnset ==
  (probe.fn \in NeedIdentifier /\ ~probe.ident) =>
    /\ probe.log = <<>>
    /\ probe.pc \in {"entry", "returned"}
    /\ probe.pc = "returned" =>
         /\ probe.result.status = "skip"
         /\ Len(probe.result.steps) = 1
         /\ probe.result.steps[1].status = "skip"

\* webhooksCheck has returned with KAPABLE_PROJECT_ID not set.
C25_Witness ==
  /\ probe.fn = "webhooksCheck"
  /\ ~probe.ident
  /\ probe.pc = "returned"
  /\ probe.result.status = "skip"

\* The positions in the log of the create requests the platform accepted.
CreatesAccepted ==
  { i \in 1..Len(probe.log) : probe.log[i].op = "create" /\ Accepted(probe.log[i].resp) }

\* C26: when the platform accepted a check's create request, the check
\* issues a delete request for the resource before it returns, also when it
\* returns early because the create response failed validation or lacked
\* the identifier, and when the delete or revoke step failed.
C26_CleanupAfterCreate ==
  probe.pc = "returned" =>
    \A i \in CreatesAccepted :
      \E j \in (i + 1)..Len(probe.log) : probe.log[j].op = "delete"

\* The checks that create a resource, use it and delete it.
Lifecycle == {"dataCrudCheck", "secretsCheck", "togglesCheck", "webhooksCheck",
              "schedulesCheck", "functionsCheck", "documentsCheck"}

\* The create request of the check was answered with HTTP 500.
CreateGot500 ==
  \E i \in 1..Len(probe.log) :
    probe.log[i].op = "create" /\ probe.log[i].resp = Answer(500, FALSE)

StepsNamed(ss, names) == { i \in 1..Len(ss) : ss[i].name \in names }

\* C27: when the create call of a lifecycle check returns HTTP 500, the check
\* records one fail step for the create, runs none of the steps that use the
\* resource, returns with error "Cannot proceed without <resource>", and
\* still issues its cleanup request and records it as a step.
C27_CreateFails ==
  (probe.fn \in Lifecycle /\ probe.pc = "returned" /\ CreateGot500) =>
    LET ss == probe.result.steps
    IN /\ Cardinality(StepsNamed(ss, {"create"})) = 1
       /\ \A i \in StepsNamed(ss, {"create"}) : ss[i].status = "fail"
       /\ StepsNamed(ss, {"insert", "get", "list", "update", "verify", "evaluate",
                          "delete", "delete record", "verify gone"}) = {}
       /\ probe.result.error = [text |-> cannotProceed(probe.fn)]
       /\ \E j \in 1..Len(probe.log) : probe.log[j].op = "delete" /\
            \E i \in 1..(j - 1) : probe.log[i].op = "create"
       /\ Cardinality(StepsNamed(ss, {"cleanup"})) = 1

\* The requests with which a check removes what it or an earlier run left
\* behind, and the outcomes no check accepts for them.
CleanupOps == {"stop", "delete"}
CleanupFailed(r) == r.error \/ r.status \notin {200, 204, 404}

\* C28: every stop or delete request a check issues whose outcome is a
\* failure (transport error or unaccepted status) leaves a fail step in the
\* result the check returns.
C28_CleanupFailureReported ==
  (probe.pc = "returned" /\
   \E i \in 1..Len(probe.log) :
     probe.log[i].op \in CleanupOps /\ CleanupFailed(probe.log[i].resp)) =>
    \E k \in 1..Len(probe.result.steps) : probe.result.steps[k].status = "fail"

\* The checks that begin with a status probe of their service.
Services == {"aiChatCheck", "aiImageCheck", "aiVoiceCheck", "storageCheck"}

\* The status probe was answered 503.
ProbeGot503 ==
  probe.fn \in Services /\ Len(probe.log) >= 1 /\
  probe.log[1].op = "status" /\ probe.log[1].resp.status = 503

\* The AI chat call was answered 402 or 503 after a passing status step.
ChatDegraded ==
  probe.fn = "aiChatCheck" /\ Len(probe.log) = 2 /\ probe.log[2].op = "chat" /\
  probe.log[2].resp.status \in {402, 503} /\ probe.steps[1].status = "pass"

\* C29: when the status probe of ai-chat, ai-image, ai-voice or storage is
\* answered 503, the check makes no further request and returns status skip
\* with exactly one step, a skip; when the AI chat call is answered 402 or
\* 503 after a passing status probe, the step of the call is skip and the
\* check's status is not fail.
C29_DegradedIsSkip ==
  /\ ProbeGot503 =>
       /\ Len(probe.log) = 1
       /\ probe.pc \in {"finally", "returned"}
       /\ probe.pc = "returned" =>
            /\ probe.result.status = "skip"
            /\ Len(probe.result.steps) = 1
            /\ probe.result.steps[1].status = "skip"
  /\ (ChatDegraded /\ probe.pc = "returned") =>
       /\ Len(probe.result.steps) = 2
       /\ probe.result.steps[2] = Step("chat", "skip", FALSE)
       /\ probe.result.status # "fail"

\* An AI chat check returned warn after a 402 on the chat call.
C29_Witness ==
  ChatDegraded /\ probe.pc = "returned" /\ probe.log[2].resp.status = 402 /\
  probe.result.status = "warn"

\* C30: every step of a result a check returns carries an error if and only
\* if its status is fail.
C30_ErrorIffFail ==
  probe.pc = "returned" =>
    \A k \in 1..Len(probe.result.steps) :
      probe.result.steps[k].error <=> probe.result.steps[k].status = "fail"

\* C31: the duration of the result a check returns is taken after the last
\* request of the check, cleanup requests of the finally block included, has
\* been answered: it is at least the time at which the last request resolved.
C31_DurationSpansCleanup ==
  probe.pc = "returned" => probe.result.durationMs >= elapsed(probe)

\* The response to GET /health is as the platform gives it when healthy: no
\* transport error, status 200, a JSON body whose status field is "ok" and
\* whose db field is absent or "connected".
Healthy(r) ==
  ~r.error /\ r.status = 200 /\ r.body.json /\ r.body.status = "ok" /\
  r.body.db \in {Absent, "connected"}

\* C32: the health check returns exactly one step; the step and the check
\* are pass exactly when the response is healthy and fail otherwise; a body
\* with status "degraded" gives an error naming status "degraded", expected
\* "ok".
C32_HealthVerdict ==
  (probe.fn = "healthCheck" /\ probe.pc = "returned") =>
    LET r == probe.log[1].resp
        st == probe.result.steps[1]
    IN /\ Len(probe.log) = 1
       /\ Len(probe.result.steps) = 1
       /\ st.status = (IF Healthy(r) THEN "pass" ELSE "fail")
       /\ probe.result.status = st.status
       /\ (~r.error /\ r.status = 200 /\ r.body.status = "degraded") =>
            \E k \in 1..Len(st.text) :
              st.text[k] = [field |-> "status", got |-> "degraded", expected |-> "ok"]

\* The health check returned fail on a 200 response whose body says
\* status "degraded".
C32_Witness ==
  probe.fn = "healthCheck" /\ probe.pc = "returned" /\
  probe.log[1].resp.status = 200 /\ ~probe.log[1].resp.error /\
  probe.log[1].resp.body.status = "degraded" /\ probe.result.status = "fail"

\* Request r is a /canary request whose run has completed and stored its
\* report.
Stored(r) ==
  pc[r] = "done" /\ run[r].kind = "all" /\ run[r].via = "http" /\ resp[r].status = 200

\* C33: once a later-started run-all has stored its report, no
\* earlier-started run-all stores its own: the last-known report is never
\* replaced by that of a run that started before the one it belongs to.
C33_Step ==
  \A r \in Reqs :
    (~Stored(r) /\ Stored(r)') => ~\E q \in Reqs : q > r /\ Stored(q)
C33_NewestReportKept == [][C33_Step]_vars

\* The requests that have acquired the lock, and the one that did so last:
\* the current holder.
Acquirers ==
  { r \in Reqs : pc[r] # "new" /\ req[r].path \in {"/canary", "/canary/:name"}
                 /\ resp[r].status # 429 }
IsHolder(r) == r \in Acquirers /\ \A q \in Acquirers : q <= r

\* C34: the lock stays held for as long as its current holder is running,
\* also when a stale run from which the holder took the lock finishes in
\* the meantime.
C34_HeldWhileHolderRuns ==
  \A r \in Reqs : (IsHolder(r) /\ pc[r] = "run") => isRunning

\* C35: stepFromResponse applies its checks in a fixed order. A result with
\* a transport error gives a fail step whose error is the transport message
\* whatever the status; otherwise a status outside the expected set gives a
\* fail step whose error names expected and actual and whose detail is the
\* raw body cut to 300 characters; otherwise a message returned by the
\* validator gives a fail step with that message; otherwise the step is
\* pass. The validator is not called when the transport failed or the
\* status was unexpected.
C35_Precedence ==
  adapter.pc = "returned" =>
    LET r == adapter.resp
        e == expectedOf(adapter.expected)
        v == adapter.validate
        st == adapter.step
    IN IF r.error # Null
       THEN st.status = "fail" /\ st.error = r.error /\ ~st.validated
       ELSE IF r.status \notin e
       THEN /\ st.status = "fail"
            /\ st.error = [kind |-> "status", expected |-> e, got |-> r.status]
            /\ st.detail.length <= DETAIL_LIMIT
            /\ st.detail.length <= r.rawLength
            /\ st.detail.length \in {r.rawLength, DETAIL_LIMIT}
            /\ ~st.validated
       ELSE IF v.given /\ v.returns # Null
       THEN st.status = "fail" /\ st.error = v.returns
       ELSE st.status = "pass" /\ st.error = Null

\* stepFromResponse returned for a result that has both a transport error
\* and a status of the expected set, with a validator that would reject.
C35_Witness ==
  /\ adapter.pc = "returned"
  /\ adapter.resp.error # Null
  /\ adapter.resp.status \in expectedOf(adapter.expected)
  /\ adapter.validate.returns # Null
  /\ adapter.step.status = "fail"

\* The CheckResults of the reports that runAllChecks has returned, whether
\* to the /canary handler or to a direct caller.
Reported ==
  UNION { { resp[r].body.checks[i] : i \in 1..Len(resp[r].body.checks) } :
            r \in { q \in Reqs : pc[q] = "done" /\ run[q].kind = "all" } }

\* C36: every CheckResult placed in a report, the one synthesized for a
\* check that threw included, has the status the lattice gives its steps; a
\* CheckResult with no steps has status pass.
C36_ReportedIsLattice ==
  \A c \in Reported :
    /\ c.status = Lattice(c.steps)
    /\ c.steps = <<>> => c.status = "pass"

C38_Step ==
  poll'.calls = poll.calls + 1 =>
    poll'.lastCallAt >= (IF poll.calls = 0 THEN 0 ELSE poll.lastCallAt) + poll.interval
C38_SleepsBeforeEachPoll == [][C38_Step]_vars

\* Request r is answered in this step.
Answered(r) == pc[r] # "done" /\ pc'[r] = "done"

\* C39: lastReport is written only when a /canary request's run-all
\* completes, and then with its report; the lock fields change only in a
\* step of a /canary or /canary/:name request; a request for the dashboard
\* or for /health is answered 200 whether or not a run is in progress and
\* leaves lastReport, isRunning and runningStartedAt as they were; a run-one
\* request, found or not, and a request rejected as busy leave lastReport as
\* it was.
C39_Step ==
  /\ lastReport' # lastReport =>
       \E r \in Reqs : /\ Answered(r) /\ req[r].path = "/canary" /\ run[r].kind = "all"
                       /\ resp'[r].status = 200 /\ lastReport' = resp'[r].body
  /\ (isRunning' # isRunning \/ runningStartedAt' # runningStartedAt) =>
       \E r \in Reqs : pc'[r] # pc[r] /\ req'[r].path \in {"/canary", "/canary/:name"}
  /\ \A r \in Reqs :
       /\ (Answered(r) /\ req'[r].path \in {"/", "/health"}) =>
            /\ resp'[r].status = 200
            /\ UNCHANGED << lastReport, isRunning, runningStartedAt >>
       /\ (Answered(r) /\ (req'[r].path = "/canary/:name" \/ resp'[r].status = 429)) =>
            UNCHANGED lastReport
C39_FrameOfHandlers == [][C39_Step]_vars

\* The dashboard and /health have been served while the run of an earlier
\* /canary request is in progress and holds the lock.
C39_Witness ==
  /\ pc[1] = "run" /\ req[1].path = "/canary" /\ isRunning
  /\ pc[2] = "done" /\ req[2].path = "/" /\ resp[2].status = 200
  /\ pc[3] = "done" /\ req[3].path = "/health" /\ resp[3].status = 200

====
